---- MODULE Spec2Model ----
EXTENDS Integers, Sequences, FiniteSets, TLC

(***************************************************************************)
(* Model of the function-calling conversation orchestrator:                *)
(*   ChatManager   (src/src/chat-manager.js)                               *)
(*   OpenAIClient  (src/unnamed/part_002, lines 1101-1436)                 *)
(*   FunctionRegistry (src/unnamed/part_002, lines 35-606)                 *)
(* JavaScript strings are TLA+ strings; other JavaScript values are        *)
(* records tagged with their typeof.                                       *)
(***************************************************************************)

VARIABLES
    messageHistory,   \* ChatManager.messageHistory
    systemMessage,    \* ChatManager.systemMessage
    clock,            \* allocation counter: object identities and timestamps
    openaiClient,     \* the client injected into the ChatManager
    functions,        \* FunctionRegistry.functions: name -> {schema, handler, name}
    tasks,            \* the invocations of processMessage and its wrappers
    opsLeft,          \* remaining budget of synchronous public operations
    cleaned,          \* history variable: cleanup() has run
    rt,               \* one call of OpenAIClient.createChatCompletion
    ex,               \* one call of FunctionRegistry.executeFunction(Safely)
    reg,              \* the last call of registerFunction or unregisterFunction
    view,             \* the last call of trimToTokenLimit
    oc,               \* OpenAIClient.config and the parameters of the last request
    cli               \* AgentCLI: isRunning, readline and the calls of handleExit

vars == <<messageHistory, systemMessage, clock, openaiClient, functions,
          tasks, opsLeft, cleaned, rt, ex, reg, view, oc, cli>>

-----------------------------------------------------------------------------
(* Bounds *)

\* events from outside in one behaviour: invocations of processMessage (or a
\* wrapper of it), function calls the endpoint asks for, synchronous public
\* operations
MaxEvents == 2
\* synchronous public operations in one behaviour
MaxOps == 1
\* objects allocated in a behaviour of SpecHistory
MaxFill == 23
\* function calls the endpoint asks for in one behaviour of SpecTurns
MaxRounds == 1
\* nested calls of sanitizeResult the call stack has room for
StackDepth == 3
\* messages in a list passed to trimToTokenLimit
MaxLen == 3
\* exit triggers in one behaviour of SpecExit
MaxExits == 3
\* lines the user enters in one behaviour of SpecExit
MaxLines == 2

-----------------------------------------------------------------------------
(* JavaScript values *)

Str(s) == [type |-> "string", val |-> s]
Null == [type |-> "null", val |-> "null"]
Num(s) == [type |-> "number", val |-> s]

\* !v for the values above
Falsy(v) ==
    \/ v = Null
    \/ v.type = "string" /\ v.val = ""
    \/ v.type = "number" /\ v.val = "0"

IsWhite(c) == c \in {" ", "\t", "\n"}

RECURSIVE TrimStart(_)
TrimStart(s) ==
    IF s = "" THEN ""
    ELSE IF IsWhite(SubSeq(s, 1, 1)) THEN TrimStart(SubSeq(s, 2, Len(s)))
    ELSE s

RECURSIVE TrimEnd(_)
TrimEnd(s) ==
    IF s = "" THEN ""
    ELSE IF IsWhite(SubSeq(s, Len(s), Len(s))) THEN TrimEnd(SubSeq(s, 1, Len(s) - 1))
    ELSE s

\* String.prototype.trim
Trim(s) == TrimEnd(TrimStart(s))

-----------------------------------------------------------------------------
(* Messages *)

Absent == [absent |-> TRUE]

validRoles == {"user", "assistant", "system", "function"}

maxHistoryLength == 20

DefaultSystemPrompt ==
    "You are a helpful AI assistant. You can use the available functions to help users with various tasks."

\* a transcript entry; id is the object's identity, timestamp 0 and name ""
\* stand for a missing key
Message(id, role, content, ts, fc, name) ==
    [id |-> id, role |-> role, content |-> content, timestamp |-> ts,
     function_call |-> fc, name |-> name]

\* the metadata argument of addToHistory; role "" and timestamp 0 stand for
\* keys the caller did not pass
Metadata(fc, name) == [function_call |-> fc, name |-> name, role |-> "", timestamp |-> 0]

NoMetadata == Metadata(Absent, "")

\* a metadata object with keys of its own for role and timestamp:
\* {role: 'tool', timestamp: 99}
CallerMetadata == [NoMetadata EXCEPT !.role = "tool", !.timestamp = 99]

\* trimHistory keeping maxHistoryLength recent entries besides the first
trimHistory_KeepMax(h) ==
    IF Len(h) <= maxHistoryLength THEN h
    ELSE <<h[1]>> \o SubSeq(h, Len(h) - maxHistoryLength + 1, Len(h))

trimHistory(h) ==
    IF Len(h) <= maxHistoryLength THEN h
    ELSE <<h[1]>> \o SubSeq(h, Len(h) - (maxHistoryLength - 1) + 1, Len(h))

\* addToHistory putting the new entry before the others
addToHistory_Front(h, c, role, content, metadata) ==
    trimHistory(<<Message(c + 1,
                          IF metadata.role # "" THEN metadata.role ELSE role,
                          content,
                          IF metadata.timestamp # 0 THEN metadata.timestamp ELSE c + 1,
                          metadata.function_call, metadata.name)>> \o h)

\* the history after addToHistory(role, content, metadata) for a valid role
\* and a string content, when the allocation counter is c
addToHistory(h, c, role, content, metadata) ==
    trimHistory(Append(h,
        Message(c + 1,
                IF metadata.role # "" THEN metadata.role ELSE role,
                content,
                IF metadata.timestamp # 0 THEN metadata.timestamp ELSE c + 1,
                metadata.function_call, metadata.name)))

\* addToHistory throws for these arguments
addToHistoryThrows(role, content) ==
    \/ role \notin validRoles
    \/ content.type # "string"

FormattedMsg(msg) ==
    [role |-> msg.role, content |-> msg.content,
     function_call |-> msg.function_call,
     name |-> IF msg.role = "function" /\ msg.name # "" THEN msg.name ELSE ""]

getFormattedHistory(h) == [i \in 1..Len(h) |-> FormattedMsg(h[i])]

RECURSIVE FindIndex(_, _, _)
FindIndex(h, role, i) ==
    IF i > Len(h) THEN 0
    ELSE IF h[i].role = role THEN i
    ELSE FindIndex(h, role, i + 1)

\* Math.ceil(n / 4)
CeilQuarter(n) == (n + 3) \div 4

\* JSON.stringify({name, arguments}).length for a name and an arguments text
\* without quotes or backslashes: {"name":"...","arguments":"..."}
JSONStringifyLength(fc) == 26 + Len(fc.name) + Len(fc.arguments)

\* the estimate of one message: its content, the overhead of 10, and its
\* function call
MessageTokens(message) ==
    CeilQuarter(Len(message.content)) + 10
    + (IF message.function_call # Absent
       THEN CeilQuarter(JSONStringifyLength(message.function_call)) ELSE 0)

RECURSIVE estimateTokenCount(_)
estimateTokenCount(messages) ==
    IF Len(messages) = 0 THEN 0
    ELSE MessageTokens(Head(messages)) + estimateTokenCount(Tail(messages))

\* the loop of trimToTokenLimit from otherMessages[i] down: the messages it
\* keeps, in their order, when currentTokens are used already
RECURSIVE KeepRecent(_, _, _, _)
KeepRecent(otherMessages, i, currentTokens, maxTokens) ==
    IF i = 0 THEN <<>>
    ELSE LET messageTokens == estimateTokenCount(<<otherMessages[i]>>)
         IN IF currentTokens + messageTokens <= maxTokens
            THEN Append(KeepRecent(otherMessages, i - 1,
                                   currentTokens + messageTokens, maxTokens),
                        otherMessages[i])
            ELSE <<>>

\* trimToTokenLimit keeping the system message only when it fits
trimToTokenLimit_FitSystem(messages, maxTokens) ==
    LET i == FindIndex(messages, "system", 1)
        NotSystem(msg) == msg.role # "system"
        fits == i > 0 /\ estimateTokenCount(<<messages[i]>>) <= maxTokens
        currentTokens == IF fits THEN estimateTokenCount(<<messages[i]>>) ELSE 0
    IN (IF fits THEN <<messages[i]>> ELSE <<>>)
       \o KeepRecent(SelectSeq(messages, NotSystem),
                     Len(SelectSeq(messages, NotSystem)), currentTokens, maxTokens)

trimToTokenLimit(messages, maxTokens) ==
    IF Len(messages) = 0 THEN messages
    ELSE LET i == FindIndex(messages, "system", 1)
             NotSystem(msg) == msg.role # "system"
             otherMessages == SelectSeq(messages, NotSystem)
             currentTokens == IF i > 0 THEN estimateTokenCount(<<messages[i]>>) ELSE 0
             \* each kept message is put at the front by unshift
             trimmedMessages ==
                 KeepRecent(otherMessages, Len(otherMessages), currentTokens, maxTokens)
                 \o (IF i > 0 THEN <<messages[i]>> ELSE <<>>)
             systemIndex == FindIndex(trimmedMessages, "system", 1)
         IN IF i > 0 /\ systemIndex > 1
            THEN <<trimmedMessages[systemIndex]>>
                 \o SubSeq(trimmedMessages, 1, systemIndex - 1)
                 \o SubSeq(trimmedMessages, systemIndex + 1, Len(trimmedMessages))
            ELSE trimmedMessages

\* getHistory(includeSystem)
getHistory(h, includeSystem) ==
    LET NotSystem(msg) == msg.role # "system"
    IN IF includeSystem THEN h ELSE SelectSeq(h, NotSystem)

CountOf(h, role) == Cardinality({i \in 1..Len(h) : h[i].role = role})

\* getConversationStats(); conversationStarted 0 stands for null and for an
\* entry without a timestamp
getConversationStats(h) ==
    [totalMessages |-> Len(getHistory(h, FALSE)),
     userMessages |-> CountOf(getHistory(h, FALSE), "user"),
     assistantMessages |-> CountOf(getHistory(h, FALSE), "assistant"),
     functionMessages |-> CountOf(getHistory(h, FALSE), "function"),
     estimatedTokens |-> estimateTokenCount(h),
     conversationStarted |-> IF Len(h) > 1 THEN h[2].timestamp ELSE 0]


-----------------------------------------------------------------------------
(* OpenAIClient: message validation and error classification *)

\* an error thrown by the endpoint: status 0 and code "" stand for missing keys
ApiError(status, code, message) == [status |-> status, code |-> code, message |-> message]

\* _shouldNotRetry without the not-found case
_shouldNotRetry_No404(error) ==
    \/ error.status = 401 \/ error.status = 403
    \/ error.status = 400

_shouldNotRetry(error) ==
    \/ error.status = 401 \/ error.status = 403
    \/ error.status = 400
    \/ error.status = 404

_handleApiError(error) ==
    IF error.status = 401 THEN
        "Authentication failed: Invalid API key. Please check your OpenAI API key."
    ELSE IF error.status = 429 THEN
        "Rate limit exceeded: Too many requests to OpenAI API. Please wait before making more requests."
    ELSE IF error.status = 400 THEN
        "Bad request: " \o (IF error.message # "" THEN error.message ELSE "Invalid request parameters")
    ELSE IF error.status = 403 THEN
        "Access forbidden: Your API key may not have the required permissions or your account may have insufficient credits."
    ELSE IF error.status = 404 THEN
        "Model not found: The specified model is not available. Please check the model name."
    ELSE IF error.status \in {500, 502, 503} THEN
        "OpenAI server error: The service is temporarily unavailable. Please try again later."
    ELSE IF error.code \in {"ENOTFOUND", "ECONNREFUSED", "ETIMEDOUT"} THEN
        "Network error: Unable to connect to OpenAI API. Please check your internet connection."
    ELSE
        "OpenAI API request failed: " \o (IF error.message # "" THEN error.message ELSE "Unknown error")

\* the message validation of createChatCompletion: the error it throws, or ""
MessagesError(messages) ==
    IF Len(messages) = 0 THEN "Messages must be a non-empty array"
    ELSE IF \E i \in 1..Len(messages) :
                messages[i].role = "" \/ messages[i].content = ""
         THEN "Each message must have role and content properties"
    ELSE ""

isReady(client) == client # "uninitialized"

\* the error createChatCompletion throws before any request is issued, or "";
\* the stub client stands for any other object passed to the ChatManager
\* constructor and accepts every transcript
createChatCompletionThrows(client, messages) ==
    IF client = "uninitialized"
    THEN "OpenAI client is not initialized. Call initialize() first."
    ELSE IF client = "OpenAIClient" THEN MessagesError(messages)
    ELSE ""

-----------------------------------------------------------------------------
(* FunctionRegistry: schemas, records and argument validation *)

Obj(fields) == [type |-> "object", val |-> fields]
Arr(items) == [type |-> "array", val |-> items]
Number(n) == [type |-> "number", val |-> n]
Callable == [type |-> "function", val |-> "handler"]
False == [type |-> "boolean", val |-> FALSE]

\* typeof v
TypeOf(v) ==
    IF v = Absent THEN "undefined"
    ELSE IF v.type \in {"array", "null"} THEN "object"
    ELSE v.type

\* v in a condition: neither undefined, null, '' nor 0
Truthy(v) ==
    /\ v # Absent
    /\ v # Null
    /\ ~(v.type = "string" /\ v.val = "")
    /\ ~(v.type = "number" /\ v.val = 0)
    /\ v # False

\* schema.enum.includes(value)
Includes(array, value) ==
    \E i \in 1..Len(array.val) :
        array.val[i].type = value.type /\ array.val[i].val = value.val

\* a schema object {name, description, parameters}
Schema(name, description, parameters) ==
    Obj([name |-> name, description |-> description, parameters |-> parameters])

\* a parameters object {type, properties, required, additionalProperties}
Parameters(ptype, properties, required) ==
    Obj([ptype |-> ptype, properties |-> properties, required |-> required,
         additionalProperties |-> Absent])

\* the schema of one property; a constraint that is not declared is undefined
Property(ptype) ==
    [type |-> ptype, minLength |-> Absent, maxLength |-> Absent,
     minimum |-> Absent, maximum |-> Absent, minItems |-> Absent,
     maxItems |-> Absent, enum |-> Absent]

\* validateSchema without the test of parameters.required
validateSchema_AnyRequired(schema) ==
    IF ~Truthy(schema) \/ TypeOf(schema) # "object" THEN FALSE
    ELSE IF ~Truthy(schema.val.name) \/ TypeOf(schema.val.name) # "string" THEN FALSE
    ELSE IF ~Truthy(schema.val.description) \/ TypeOf(schema.val.description) # "string"
    THEN FALSE
    ELSE IF ~Truthy(schema.val.parameters) THEN TRUE
    ELSE IF TypeOf(schema.val.parameters) # "object" THEN FALSE
    ELSE LET p == schema.val.parameters.val
         IN IF Truthy(p.ptype) /\ p.ptype # Str("object") THEN FALSE
            ELSE IF Truthy(p.properties) /\ TypeOf(p.properties) # "object" THEN FALSE
            ELSE TRUE

validateSchema(schema) ==
    IF ~Truthy(schema) \/ TypeOf(schema) # "object" THEN FALSE
    ELSE IF ~Truthy(schema.val.name) \/ TypeOf(schema.val.name) # "string" THEN FALSE
    ELSE IF ~Truthy(schema.val.description) \/ TypeOf(schema.val.description) # "string"
    THEN FALSE
    ELSE IF ~Truthy(schema.val.parameters) THEN TRUE
    ELSE IF TypeOf(schema.val.parameters) # "object" THEN FALSE
    ELSE LET p == schema.val.parameters.val
         IN IF Truthy(p.ptype) /\ p.ptype # Str("object") THEN FALSE
            ELSE IF Truthy(p.properties) /\ TypeOf(p.properties) # "object" THEN FALSE
            ELSE IF Truthy(p.required) /\ p.required.type # "array" THEN FALSE
            ELSE TRUE

\* the error registerFunction throws, or ""
registerFunctionThrows(name, schema, handler) ==
    IF ~Truthy(name) \/ TypeOf(name) # "string"
    THEN "Function name must be a non-empty string"
    ELSE IF ~validateSchema(schema) THEN "Invalid function schema"
    ELSE IF TypeOf(handler) # "function" THEN "Handler must be a function"
    ELSE ""

\* this.functions.set(name, {schema, handler, name})
FunctionData(name, schema, handler) ==
    [schema |-> schema, handler |-> handler, name |-> name]

MapSet(map, key, value) ==
    [k \in DOMAIN map \cup {key} |-> IF k = key THEN value ELSE map[k]]

MapDelete(map, key) == [k \in DOMAIN map \ {key} |-> map[k]]

\* getFunctionSchemas, as the set of the schemas' names
getFunctionSchemas(map) == {map[k].schema.val.name.val : k \in DOMAIN map}

\* an arguments object: its entries <<key, value>> in insertion order
Args(entries) == Obj(entries)

HasKey(args, key) == \E i \in 1..Len(args.val) : args.val[i][1] = key

validateParameterType(value, expectedType) ==
    IF value = Null THEN expectedType = "null"
    ELSE CASE expectedType = "string" -> value.type = "string"
           [] expectedType \in {"number", "integer"} -> value.type = "number"
           [] expectedType = "boolean" -> value.type = "boolean"
           [] expectedType = "array" -> value.type = "array"
           [] expectedType = "object" -> value.type = "object"
           [] expectedType = "null" -> FALSE
           [] OTHER -> TRUE

\* validateParameterConstraints with >= in place of > for the upper bounds
validateParameterConstraints_Inclusive(value, schema, paramName) ==
    IF schema.type = "string" /\ schema.minLength # Absent
       /\ Len(value.val) < schema.minLength.val
    THEN "Parameter '" \o paramName \o "' must be at least "
         \o ToString(schema.minLength.val) \o " characters long"
    ELSE IF schema.type = "string" /\ schema.maxLength # Absent
            /\ Len(value.val) >= schema.maxLength.val
    THEN "Parameter '" \o paramName \o "' must be at most "
         \o ToString(schema.maxLength.val) \o " characters long"
    ELSE IF schema.type \in {"number", "integer"} /\ schema.minimum # Absent
            /\ value.val < schema.minimum.val
    THEN "Parameter '" \o paramName \o "' must be at least " \o ToString(schema.minimum.val)
    ELSE IF schema.type \in {"number", "integer"} /\ schema.maximum # Absent
            /\ value.val >= schema.maximum.val
    THEN "Parameter '" \o paramName \o "' must be at most " \o ToString(schema.maximum.val)
    ELSE IF schema.type = "array" /\ schema.minItems # Absent
            /\ Len(value.val) < schema.minItems.val
    THEN "Parameter '" \o paramName \o "' must have at least "
         \o ToString(schema.minItems.val) \o " items"
    ELSE IF schema.type = "array" /\ schema.maxItems # Absent
            /\ Len(value.val) >= schema.maxItems.val
    THEN "Parameter '" \o paramName \o "' must have at most "
         \o ToString(schema.maxItems.val) \o " items"
    ELSE IF schema.enum # Absent /\ ~Includes(schema.enum, value)
    THEN "Parameter '" \o paramName \o "' must be one of the enum values"
    ELSE ""

\* the error of the first violated constraint, or ""; the schemas of this
\* model declare no pattern
validateParameterConstraints(value, schema, paramName) ==
    IF schema.type = "string" /\ schema.minLength # Absent
       /\ Len(value.val) < schema.minLength.val
    THEN "Parameter '" \o paramName \o "' must be at least "
         \o ToString(schema.minLength.val) \o " characters long"
    ELSE IF schema.type = "string" /\ schema.maxLength # Absent
            /\ Len(value.val) > schema.maxLength.val
    THEN "Parameter '" \o paramName \o "' must be at most "
         \o ToString(schema.maxLength.val) \o " characters long"
    ELSE IF schema.type \in {"number", "integer"} /\ schema.minimum # Absent
            /\ value.val < schema.minimum.val
    THEN "Parameter '" \o paramName \o "' must be at least " \o ToString(schema.minimum.val)
    ELSE IF schema.type \in {"number", "integer"} /\ schema.maximum # Absent
            /\ value.val > schema.maximum.val
    THEN "Parameter '" \o paramName \o "' must be at most " \o ToString(schema.maximum.val)
    ELSE IF schema.type = "array" /\ schema.minItems # Absent
            /\ Len(value.val) < schema.minItems.val
    THEN "Parameter '" \o paramName \o "' must have at least "
         \o ToString(schema.minItems.val) \o " items"
    ELSE IF schema.type = "array" /\ schema.maxItems # Absent
            /\ Len(value.val) > schema.maxItems.val
    THEN "Parameter '" \o paramName \o "' must have at most "
         \o ToString(schema.maxItems.val) \o " items"
    ELSE IF schema.enum # Absent /\ ~Includes(schema.enum, value)
    THEN "Parameter '" \o paramName \o "' must be one of the enum values"
    ELSE ""

\* the first missing key of required, or ""
RECURSIVE MissingRequired(_, _, _)
MissingRequired(args, required, i) ==
    IF i > Len(required) THEN ""
    ELSE IF ~HasKey(args, required[i]) THEN required[i]
    ELSE MissingRequired(args, required, i + 1)

\* the loop over Object.entries(args): the first error, or ""
RECURSIVE EntriesError(_, _, _)
EntriesError(args, properties, i) ==
    IF i > Len(args.val) THEN ""
    ELSE LET paramName == args.val[i][1]
             paramValue == args.val[i][2]
             err == IF paramName \notin DOMAIN properties THEN ""
                    ELSE LET paramSchema == properties[paramName]
                         IN IF paramSchema.type # ""
                               /\ ~validateParameterType(paramValue, paramSchema.type)
                            THEN "Invalid type for parameter '" \o paramName
                                 \o "': expected " \o paramSchema.type
                                 \o ", got " \o TypeOf(paramValue)
                            ELSE validateParameterConstraints(paramValue, paramSchema,
                                                              paramName)
         IN IF err # "" THEN err ELSE EntriesError(args, properties, i + 1)

\* validationResult.error, "" when validationResult.isValid
validateArguments(args, parameters) ==
    IF ~Truthy(parameters.properties) THEN ""
    ELSE IF TypeOf(args) # "object" \/ args = Null THEN "Arguments must be an object"
    ELSE IF Truthy(parameters.required) /\ parameters.required.type = "array"
            /\ MissingRequired(args, parameters.required.val, 1) # ""
    THEN "Missing required parameter: "
         \o MissingRequired(args, parameters.required.val, 1)
    ELSE IF EntriesError(args, parameters.properties.val, 1) # ""
    THEN EntriesError(args, parameters.properties.val, 1)
    ELSE IF parameters.additionalProperties = False
            /\ \E i \in 1..Len(args.val) :
                 args.val[i][1] \notin DOMAIN parameters.properties.val
    THEN "Unexpected parameters"
    ELSE ""

ExecutionSuccess(result) ==
    [success |-> TRUE, result |-> result, error |-> [message |-> "", type |-> ""]]

formatError(message, errorType) ==
    [success |-> FALSE, result |-> "", error |-> [message |-> message, type |-> errorType]]

\* no ExecutionResult: the gates of executeFunction were passed
NoResult == [success |-> FALSE, result |-> "", error |-> [message |-> "", type |-> ""]]

\* the gates of executeFunction before the handler is invoked: the result
\* returned by the first gate that fails, or NoResult
executeFunctionGates(map, name, args) ==
    IF name \notin DOMAIN map
    THEN formatError("Function '" \o name \o "' not found", "FUNCTION_NOT_FOUND")
    ELSE LET parameters == map[name].schema.val.parameters
         IN IF Truthy(parameters) /\ validateArguments(args, parameters.val) # ""
            THEN formatError(validateArguments(args, parameters.val), "VALIDATION_ERROR")
            ELSE NoResult

timeoutMs == 5000

TimeoutMessage == "Function execution timeout after " \o ToString(timeoutMs) \o "ms"

\* JSON.parse of the argument strings the endpoint sends: does it throw
JSONParseThrows(argsString) == argsString \notin {"{}"}

\* argsString ? JSON.parse(argsString) : {} for the strings that parse
JSONParse(argsString) == Args(<<>>)

\* the results executeFunctionSafely(name, args, {timeout: 10000}) can settle
\* with: a gate fails, or the handler returns, throws, or loses the timeout race
executeFunctionSafely(map, name, args) ==
    IF executeFunctionGates(map, name, args) # NoResult
    THEN {executeFunctionGates(map, name, args)}
    ELSE {ExecutionSuccess("12:00"),
          formatError("Function execution failed: clock unavailable", "EXECUTION_ERROR"),
          formatError("Function execution failed: " \o TimeoutMessage, "EXECUTION_ERROR")}

formatFunctionResult(functionResult, functionName) ==
    IF functionResult.success THEN functionResult.result
    ELSE "Error executing " \o functionName \o ": " \o functionResult.error.message
         \o " (Type: " \o functionResult.error.type \o ")"

-----------------------------------------------------------------------------
(* ChatManager.processMessage and the function-call sub-protocol.          *)
(* A step of an invocation runs from one await to the next; st is the      *)
(* record [h, c, t] of the transcript, the allocation counter and the      *)
(* invocation's own state.                                                 *)

Envelope(success, message, errorType) ==
    [success |-> success, message |-> message, error |-> errorType]

Add(st, role, content, metadata) ==
    [st EXCEPT !.h = addToHistory(st.h, st.c, role, content, metadata),
               !.c = @ + 1]

\* the invocation returns envelope and the transcript stays as it is
Return_Keep(st, envelope) ==
    [st EXCEPT !.t.pc = "returned", !.t.result = envelope]

\* the invocation returns envelope; generateResponse then restores its snapshot
Return(st, envelope) ==
    [st EXCEPT !.t.pc = "returned",
               !.t.result = envelope,
               !.h = IF st.t.kind = "generateResponse"
                     THEN st.t.originalHistory ELSE @]

\* the request is issued and the invocation awaits the endpoint
Await(st, stage, messages) ==
    [st EXCEPT !.t.pc = "awaitCompletion",
               !.t.stage = stage,
               !.t.request = messages,
               !.t.sent = @ + 1]

\* processMessage letting the error escape
processMessageCatch_Rethrow(st, errorMessage) ==
    [st EXCEPT !.t.pc = "threw"]

\* catch block of processMessage
processMessageCatch(st, errorMessage) ==
    Return(Add(st, "assistant", "I encountered an error: " \o errorMessage, NoMetadata),
           Envelope(FALSE, "I encountered an error: " \o errorMessage, "PROCESSING_ERROR"))

\* the inner catch asking for the final response once more
handleFunctionCallFinalCatch_Again(st) ==
    Await(st, "retry", getFormattedHistory(st.h))

\* inner catch of handleFunctionCall: the second getFinalResponseAfterFunction failed
handleFunctionCallFinalCatch(st) ==
    Return(st, Envelope(FALSE,
                        "I encountered an error while executing the function: "
                            \o st.t.firstError,
                        "FUNCTION_EXECUTION_ERROR"))

\* the error getFinalResponseAfterFunction throws before any request is
\* issued, "" when it reaches its await
getFinalResponseAfterFunctionThrows(st) ==
    LET err == createChatCompletionThrows(openaiClient, getFormattedHistory(st.h))
    IN IF err # ""
       THEN "Failed to get final response after function execution: " \o err
       ELSE ""

\* getFinalResponseAfterFunction up to its await, stage "final" or "retry"
getFinalResponseAfterFunction(st, stage) ==
    Await(st, stage, getFormattedHistory(st.h))

\* the outer catch without the function message
handleFunctionCallCatch_Silent(st, errorMessage) ==
    LET st1 == [st EXCEPT !.t.firstError = errorMessage, !.t.faults = @ + 1]
    IN IF getFinalResponseAfterFunctionThrows(st1) # ""
       THEN handleFunctionCallFinalCatch(st1)
       ELSE getFinalResponseAfterFunction(st1, "retry")

\* outer catch of handleFunctionCall: an error message is appended as a
\* function message and the final response is requested once more
handleFunctionCallCatch(st, errorMessage) ==
    LET st1 == Add([st EXCEPT !.t.firstError = errorMessage, !.t.faults = @ + 1],
                   "function", "Function execution failed: " \o errorMessage,
                   Metadata(Absent, st.t.functionCall.name))
    IN IF getFinalResponseAfterFunctionThrows(st1) # ""
       THEN handleFunctionCallFinalCatch(st1)
       ELSE getFinalResponseAfterFunction(st1, "retry")

\* the function result message is appended and the next completion requested
afterFunction(st, content) ==
    LET st1 == Add(st, "function", content, Metadata(Absent, st.t.functionCall.name))
        err == getFinalResponseAfterFunctionThrows(st1)
    IN IF err # ""
       THEN handleFunctionCallCatch(st1, err)
       ELSE getFinalResponseAfterFunction(st1, "final")

\* handleFunctionCall up to its first await
handleFunctionCall(st, functionCall) ==
    LET st1 == Add([st EXCEPT !.t.functionCall = functionCall, !.t.rounds = @ + 1],
                   "assistant", "", Metadata(functionCall, ""))
    IN IF functionCall.arguments # "" /\ JSONParseThrows(functionCall.arguments)
       THEN afterFunction(st1, "Failed to parse function arguments: Unexpected token")
       ELSE [st1 EXCEPT !.t.pc = "awaitFunction"]

\* an error reaches the catch block in force at this stage
onCompletionError(st, errorMessage) ==
    CASE st.t.stage = "first" -> processMessageCatch(st, errorMessage)
      [] st.t.stage = "final" ->
            handleFunctionCallCatch(st,
                "Failed to get final response after function execution: " \o errorMessage)
      [] st.t.stage = "retry" -> handleFunctionCallFinalCatch(st)

\* a text completion taken for a step of the loop: it is appended and another
\* completion is requested
processOpenAIResponse_Again(st, response) ==
    IF response.function_call # Absent
    THEN handleFunctionCall(st, response.function_call)
    ELSE IF addToHistoryThrows("assistant", response.content)
    THEN onCompletionError(st,
            "Failed to process OpenAI response: Message content must be a string")
    ELSE LET st1 == Add(st, "assistant", response.content.val, NoMetadata)
         IN Await(st1, "final", getFormattedHistory(st1.h))

processOpenAIResponse(st, response) ==
    IF response.function_call # Absent
    THEN handleFunctionCall(st, response.function_call)
    ELSE IF addToHistoryThrows("assistant", response.content)
    THEN onCompletionError(st,
            "Failed to process OpenAI response: Message content must be a string")
    ELSE Return(Add(st, "assistant", response.content.val, NoMetadata),
                Envelope(TRUE, response.content.val, ""))

-----------------------------------------------------------------------------
(* Initial state: new OpenAIClient(), new FunctionRegistry() with one      *)
(* registered function, new ChatManager(openaiClient, functionRegistry)    *)

NoEnvelope == Envelope(FALSE, "", "")

IdleTask ==
    [pc |-> "idle", stage |-> "", kind |-> "", input |-> Null,
     includeHistory |-> TRUE, originalHistory |-> <<>>,
     functionCall |-> Absent, firstError |-> "", request |-> <<>>,
     sent |-> 0, rounds |-> 0, trace |-> <<>>, executed |-> NoResult,
     after |-> {}, faults |-> 0, result |-> NoEnvelope]

\* one call of createChatCompletion: log holds the errors of the failed
\* requests, delays the backoff delays slept, responseOf the request whose
\* response was returned
IdleClient ==
    [pc |-> "idle", messages |-> <<>>, attempt |-> 0, requests |-> 0,
     log |-> <<>>, delays |-> <<>>, result |-> "", responseOf |-> 0]

\* one call of executeFunction or executeFunctionSafely: steps logs what the
\* call has done in order, timer is the state of the timeout timer, handler
\* that of the handler's promise, now the time in ms since the call
IdleExecution ==
    [pc |-> "idle", api |-> "", name |-> "", args |-> Absent, timeout |-> 0,
     behaviour |-> [kind |-> "none", at |-> 0, value |-> ""],
     steps |-> <<>>, timer |-> "none", handler |-> "none", result |-> NoResult,
     meta |-> Absent, thrown |-> "", now |-> 0]

IdleRegistration ==
    [op |-> "", name |-> Absent, schema |-> Absent, handler |-> Absent, threw |-> ""]

\* no call of trimToTokenLimit yet: messages is the list passed, as it is
\* after the call
IdleView ==
    [op |-> "", messages |-> <<>>, maxTokens |-> 0, result |-> <<>>]

\* new OpenAIClient(): temperatures are in tenths, so 7 is 0.7; threw is the
\* error of the last initialize or updateConfig, request the parameters of
\* the last request
DefaultConfig ==
    [model |-> Str("gpt-4"), temperature |-> Number(7), maxTokens |-> Number(1000)]

NewClient == [config |-> DefaultConfig, op |-> "", threw |-> "", request |-> Absent]

\* new AgentCLI(): exits are the calls of handleExit so far, pending the
\* turns in flight, saves the conversation files written and saved the
\* messages of the last one, cleanups the calls of ChatManager.cleanup
NewCLI ==
    [isRunning |-> FALSE, rl |-> "none", exits |-> <<>>, pending |-> 0,
     saves |-> 0, saved |-> <<>>, savedAfter |-> 0, cleanups |-> 0]

getCurrentTimeSchema ==
    Schema(Str("getCurrentTime"), Str("Get the current date and time"),
           Parameters(Str("object"), Obj(<<>>), Absent))

calculateMathSchema ==
    Schema(Str("calculateMath"), Str("Calculate simple math expressions"),
           Parameters(Str("object"), Obj([expression |-> Property("string")]),
                      Arr(<<"expression">>)))

\* the registry after registerBuiltInFunctions
BuiltIns ==
    MapSet(MapSet(<<>>, "getCurrentTime",
                  FunctionData("getCurrentTime", getCurrentTimeSchema, Callable)),
           "calculateMath", FunctionData("calculateMath", calculateMathSchema, Callable))

Clients == {"OpenAIClient", "uninitialized", "stub"}

Init ==
    /\ systemMessage = Message(1, "system", DefaultSystemPrompt, 0, Absent, "")
    /\ messageHistory = <<systemMessage>>
    /\ clock = 1
    /\ openaiClient \in Clients
    /\ functions = BuiltIns
    /\ tasks = [t \in 1..MaxEvents |-> IdleTask]
    /\ opsLeft = MaxOps
    /\ cleaned = FALSE
    /\ rt = IdleClient
    /\ ex = IdleExecution
    /\ reg = IdleRegistration
    /\ view = IdleView
    /\ oc = NewClient
    /\ cli = NewCLI

-----------------------------------------------------------------------------
(* Inputs *)

UserInputs == {Str(""), Str("  "), Num("42"), Str(" What time is it? ")}

\* how an invocation is started: processMessage(userInput, {includeHistory,
\* maxTokens}), generateResponse(userInput), continueConversation(userInput,
\* context); maxTokens 0 stands for an option that is not passed
Calls ==
    {[kind |-> "processMessage", includeHistory |-> b, maxTokens |-> 0,
      context |-> ""] : b \in BOOLEAN}
    \cup {[kind |-> "processMessage", includeHistory |-> TRUE, maxTokens |-> 40,
           context |-> ""]}
    \cup {[kind |-> "generateResponse", includeHistory |-> TRUE, maxTokens |-> 0,
           context |-> ""]}
    \cup {[kind |-> "continueConversation", includeHistory |-> TRUE, maxTokens |-> 0,
           context |-> "The user is in Paris."]}

TextResponse(text) == [kind |-> "response", content |-> Str(text),
                       function_call |-> Absent, error |-> ""]
NullResponse == [kind |-> "response", content |-> Null,
                 function_call |-> Absent, error |-> ""]
CallResponse(name, arguments) ==
    [kind |-> "response", content |-> Null,
     function_call |-> [name |-> name, arguments |-> arguments], error |-> ""]
ErrorOutcome(message) == [kind |-> "error", content |-> Null,
                          function_call |-> Absent, error |-> message]

FinalText == "It is noon"

CallOutcomes ==
    {CallResponse("getCurrentTime", "{}"),
     CallResponse("getCurrentTime", "{bad"),
     CallResponse("calculateMath", "{}"),
     CallResponse("getWeather", "{}")}

\* the results a function call of CallOutcomes can settle with
ExecutionResults ==
    UNION {executeFunctionSafely(BuiltIns, o.function_call.name, JSONParse("{}")) :
             o \in CallOutcomes}

\* what createChatCompletion settles with once its request is issued
Outcomes ==
    {TextResponse(FinalText), NullResponse}
    \cup CallOutcomes
    \cup {ErrorOutcome(_handleApiError(ApiError(429, "", "")))}

-----------------------------------------------------------------------------
(* Actions of the orchestrator *)

RECURSIVE RoundsUpTo(_)
RoundsUpTo(t) == IF t = 0 THEN 0 ELSE tasks[t].rounds + RoundsUpTo(t - 1)

\* the events of the behaviour so far
EventsUsed ==
    Cardinality({t \in 1..MaxEvents : tasks[t].pc # "idle"})
    + RoundsUpTo(MaxEvents) + (MaxOps - opsLeft)

\* a synchronous operation may still be started
MayOperate == opsLeft > 0 /\ EventsUsed < MaxEvents

Commit(t, st) ==
    /\ messageHistory' = st.h
    /\ clock' = st.c
    /\ tasks' = [tasks EXCEPT ![t] = st.t]

\* the input validation without the whitespace check
InvalidInput_NoTrim(userInput) ==
    \/ Falsy(userInput)
    \/ userInput.type # "string"

InvalidInput(userInput) ==
    \/ Falsy(userInput)
    \/ userInput.type # "string"
    \/ Trim(userInput.val) = ""

\* processMessage up to its first await
processMessageBody(st, userInput, includeHistory, maxTokens) ==
    IF InvalidInput(userInput)
    THEN processMessageCatch(st, "User input must be a non-empty string")
    ELSE IF ~isReady(openaiClient)
    THEN processMessageCatch(st, "OpenAI client is not initialized")
    ELSE LET st1 == Add(st, "user", Trim(userInput.val), NoMetadata)
             prepared == IF includeHistory THEN getFormattedHistory(st1.h)
                         ELSE <<FormattedMsg(systemMessage),
                                [role |-> "user", content |-> Trim(userInput.val),
                                 function_call |-> Absent, name |-> ""]>>
             messages == IF maxTokens # 0 THEN trimToTokenLimit(prepared, maxTokens)
                         ELSE prepared
             err == createChatCompletionThrows(openaiClient, messages)
         IN IF err # "" THEN processMessageCatch(st1, err)
            ELSE Await(st1, "first", messages)

\* one invocation of processMessage, generateResponse or continueConversation,
\* up to its first await; nothing makes it wait for the invocations in flight
processMessageCall(t, userInput, call) ==
    /\ tasks[t].pc = "idle"
    /\ \A u \in 1..MaxEvents : IF u < t THEN tasks[u].pc # "idle" ELSE tasks[u].pc = "idle"
    /\ LET task == [IdleTask EXCEPT !.kind = call.kind, !.input = userInput,
                                    !.includeHistory = call.includeHistory,
                                    !.after = {u \in 1..MaxEvents :
                                                 tasks[u].pc = "returned"},
                                    !.originalHistory =
                                        IF call.kind = "generateResponse"
                                        THEN messageHistory ELSE <<>>]
           st0 == [h |-> messageHistory, c |-> clock, t |-> task]
           st == IF call.kind = "continueConversation"
                 THEN Add(st0, "system", call.context, NoMetadata) ELSE st0
       IN Commit(t, processMessageBody(st, userInput, call.includeHistory,
                                       call.maxTokens))
    /\ UNCHANGED <<systemMessage, openaiClient, functions, opsLeft, cleaned, rt, ex, reg,
                   view, oc, cli>>

\* processMessage behind a queue: an invocation starts when the ones before it
\* have returned
processMessage_Serialized(t, userInput, call) ==
    /\ EventsUsed < MaxEvents
    /\ \A u \in 1..MaxEvents : tasks[u].pc \in {"idle", "returned"}
    /\ processMessageCall(t, userInput, call)

processMessage(t, userInput, call) ==
    /\ EventsUsed < MaxEvents
    /\ processMessageCall(t, userInput, call)

\* the completion an invocation awaits settles with outcome
completionArrives(t, outcome) ==
    /\ tasks[t].pc = "awaitCompletion"
    /\ LET st == [h |-> messageHistory, c |-> clock,
                  t |-> [tasks[t] EXCEPT !.trace = Append(@, outcome)]]
       IN Commit(t, IF outcome.kind = "error"
                    THEN onCompletionError(st, outcome.error)
                    ELSE processOpenAIResponse(st, outcome))
    /\ UNCHANGED <<systemMessage, openaiClient, functions, opsLeft, cleaned, rt, ex, reg,
                   view, oc, cli>>

completionSettles(t, outcome) ==
    /\ outcome \in CallOutcomes => EventsUsed < MaxEvents
    /\ completionArrives(t, outcome)

functionSettles(t, functionResult) ==
    /\ tasks[t].pc = "awaitFunction"
    /\ functionResult \in executeFunctionSafely(functions, tasks[t].functionCall.name,
                                                JSONParse(tasks[t].functionCall.arguments))
    /\ LET st == [h |-> messageHistory, c |-> clock,
                  t |-> [tasks[t] EXCEPT !.executed = functionResult]]
       IN Commit(t, afterFunction(st,
                    formatFunctionResult(functionResult, tasks[t].functionCall.name)))
    /\ UNCHANGED <<systemMessage, openaiClient, functions, opsLeft, cleaned, rt, ex, reg,
                   view, oc, cli>>

-----------------------------------------------------------------------------
(* Synchronous public operations of ChatManager *)

startConversation(systemPrompt) ==
    /\ MayOperate
    /\ LET content == IF Falsy(systemPrompt) THEN systemMessage.content
                      ELSE systemPrompt.val
           sys == Message(clock + 1, "system", content, 0, Absent, "")
       IN /\ systemMessage' = sys
          /\ messageHistory' = <<sys>>
    /\ clock' = clock + 1
    /\ opsLeft' = opsLeft - 1
    /\ UNCHANGED <<openaiClient, functions, tasks, cleaned, rt, ex, reg,
                   view, oc, cli>>

\* the public addToHistory(role, content, metadata): a throw leaves the
\* transcript as it was
addMessage(role, content, metadata) ==
    /\ MayOperate
    /\ IF addToHistoryThrows(role, content)
       THEN UNCHANGED <<messageHistory, clock, ex, reg>>
       ELSE /\ messageHistory' = addToHistory(messageHistory, clock, role, content.val, metadata)
            /\ clock' = clock + 1
    /\ opsLeft' = opsLeft - 1
    /\ UNCHANGED <<systemMessage, openaiClient, functions, tasks, cleaned, rt, ex, reg,
                   view, oc, cli>>

\* addToHistory called by a caller that keeps appending, as when a
\* conversation is seeded
seedMessage(role, content) ==
    /\ clock < MaxFill
    /\ messageHistory' = addToHistory(messageHistory, clock, role, content, NoMetadata)
    /\ clock' = clock + 1
    /\ UNCHANGED <<systemMessage, openaiClient, functions, tasks, opsLeft, cleaned, rt, ex, reg,
                   view, oc, cli>>

\* clearHistory dropping the system message too
clearHistory_Everything ==
    /\ MayOperate
    /\ messageHistory' = <<>>
    /\ opsLeft' = opsLeft - 1
    /\ UNCHANGED <<systemMessage, clock, openaiClient, functions, tasks, cleaned, rt, ex, reg,
                   view, oc, cli>>

clearHistory ==
    /\ MayOperate
    /\ LET i == FindIndex(messageHistory, "system", 1)
       IN messageHistory' = IF i > 0 THEN <<messageHistory[i]>> ELSE <<>>
    /\ opsLeft' = opsLeft - 1
    /\ UNCHANGED <<systemMessage, clock, openaiClient, functions, tasks, cleaned, rt, ex, reg,
                   view, oc, cli>>

\* the objects updateSystemMessage writes to: this.systemMessage and the first
\* system entry of the transcript
SetContent(h, ids, content) ==
    [i \in 1..Len(h) |-> IF h[i].id \in ids THEN [h[i] EXCEPT !.content = content] ELSE h[i]]

updateSystemMessage(newSystemPrompt) ==
    /\ MayOperate
    /\ LET i == FindIndex(messageHistory, "system", 1)
           ids == {systemMessage.id} \cup (IF i > 0 THEN {messageHistory[i].id} ELSE {})
       IN /\ systemMessage' = [systemMessage EXCEPT !.content = newSystemPrompt]
          /\ messageHistory' = SetContent(messageHistory, ids, newSystemPrompt)
          /\ tasks' = [t \in 1..MaxEvents |->
                        [tasks[t] EXCEPT !.originalHistory = SetContent(@, ids, newSystemPrompt)]]
    /\ opsLeft' = opsLeft - 1
    /\ UNCHANGED <<clock, openaiClient, functions, cleaned, rt, ex, reg,
                   view, oc, cli>>

cleanup ==
    /\ MayOperate
    /\ messageHistory' = <<>>
    /\ cleaned' = TRUE
    /\ opsLeft' = opsLeft - 1
    /\ UNCHANGED <<systemMessage, clock, openaiClient, functions, tasks, rt, ex, reg,
                   view, oc, cli>>

Next ==
    \/ \E t \in 1..MaxEvents, u \in UserInputs, call \in Calls : processMessage(t, u, call)
    \/ \E t \in 1..MaxEvents, o \in Outcomes : completionSettles(t, o)
    \/ \E t \in 1..MaxEvents, r \in ExecutionResults : functionSettles(t, r)
    \/ \E p \in {Null, Str("Be brief.")} : startConversation(p)
    \/ \E role \in {"user", "system", "tool"}, content \in {Str("note"), Null},
          metadata \in {NoMetadata, CallerMetadata} :
         addMessage(role, content, metadata)
    \/ clearHistory
    \/ updateSystemMessage("Be brief.")
    \/ cleanup

Spec == Init /\ [][Next]_vars

-----------------------------------------------------------------------------
(* Turns of one conversation: a caller that awaits each processMessage     *)
(* before the next, as the chat loop of index.js does (line 394)           *)

TurnInput == Str("What time is it?")

TurnCalls == {c \in Calls : c.kind = "processMessage"}

TurnOutcomes ==
    {TextResponse(FinalText), CallResponse("getCurrentTime", "{}"),
     ErrorOutcome(_handleApiError(ApiError(401, "", ""))),
     ErrorOutcome(_handleApiError(ApiError(429, "", "")))}

nextTurn(t, call) ==
    /\ \A u \in 1..MaxEvents : tasks[u].pc \in {"idle", "returned"}
    /\ processMessageCall(t, TurnInput, call)

completionOfTurn(t, outcome) ==
    /\ outcome \in CallOutcomes => RoundsUpTo(MaxEvents) < MaxRounds
    /\ completionArrives(t, outcome)

NextTurns ==
    \/ \E t \in 1..MaxEvents, call \in TurnCalls : nextTurn(t, call)
    \/ \E t \in 1..MaxEvents, o \in TurnOutcomes : completionOfTurn(t, o)
    \/ \E t \in 1..MaxEvents, r \in ExecutionResults : functionSettles(t, r)

InitTurns ==
    /\ systemMessage = Message(1, "system", DefaultSystemPrompt, 0, Absent, "")
    /\ messageHistory = <<systemMessage>>
    /\ clock = 1
    /\ openaiClient \in {"OpenAIClient", "stub"}
    /\ functions = BuiltIns
    /\ tasks = [t \in 1..MaxEvents |-> IdleTask]
    /\ opsLeft = MaxOps
    /\ cleaned = FALSE
    /\ rt = IdleClient
    /\ ex = IdleExecution
    /\ reg = IdleRegistration
    /\ view = IdleView
    /\ oc = NewClient
    /\ cli = NewCLI

SpecTurns == InitTurns /\ [][NextTurns]_vars

-----------------------------------------------------------------------------
(* OpenAIClient.createChatCompletion with its retry loop, request by request *)

maxRetries == 3

\* a linear instead of an exponential backoff
backoffDelay_Linear(attempt, jitter) == (attempt + 1) * 1000 + jitter

backoffDelay(attempt, jitter) == (2 ^ attempt) * 1000 + jitter

\* Math.random() * 1000, in whole milliseconds
Jitters == {0, 999}

\* the catch block comparing the attempt with the number of requests
_executeWithRetryCatch_OffByOne(r, error, jitter) ==
    LET r1 == [r EXCEPT !.log = Append(@, error)]
    IN IF _shouldNotRetry(error)
       THEN [r1 EXCEPT !.pc = "threw", !.result = _handleApiError(error)]
       ELSE IF r.attempt = maxRetries + 1
       THEN [r1 EXCEPT !.pc = "threw", !.result = _handleApiError(error)]
       ELSE [r1 EXCEPT !.pc = "sleep",
                       !.delays = Append(@, (2 ^ r.attempt) * 1000 + jitter)]

\* catch block of _executeWithRetry for the request of attempt r.attempt
_executeWithRetryCatch(r, error, jitter) ==
    LET r1 == [r EXCEPT !.log = Append(@, error)]
    IN IF _shouldNotRetry(error)
       THEN [r1 EXCEPT !.pc = "threw", !.result = _handleApiError(error)]
       ELSE IF r.attempt = maxRetries
       THEN [r1 EXCEPT !.pc = "threw", !.result = _handleApiError(error)]
       ELSE [r1 EXCEPT !.pc = "sleep",
                       !.delays = Append(@, backoffDelay(r.attempt, jitter))]

EchoCall == [name |-> "getCurrentTime", arguments |-> "{}"]

\* the transcript getFinalResponseAfterFunction sends after one function call
EchoTranscript ==
    LET h0 == <<Message(1, "system", DefaultSystemPrompt, 0, Absent, "")>>
        h1 == addToHistory(h0, 1, "user", "What time is it?", NoMetadata)
        h2 == addToHistory(h1, 2, "assistant", "", Metadata(EchoCall, ""))
        h3 == addToHistory(h2, 3, "function", "12:00", Metadata(Absent, "getCurrentTime"))
    IN getFormattedHistory(h3)

PlainMsg(role, content) ==
    [role |-> role, content |-> content, function_call |-> Absent, name |-> ""]

Transcripts ==
    {<<>>,
     <<PlainMsg("user", "Hello! What is 2+2?")>>,
     <<PlainMsg("user", "")>>,
     <<PlainMsg("", "Hello")>>,
     <<PlainMsg("user", "Hello"), PlainMsg("assistant", "")>>,
     EchoTranscript}

\* errors of the endpoint: by status, or by code for a transport failure
ApiErrors ==
    {ApiError(status, "", "") : status \in {400, 401, 403, 404, 418, 429, 500}}
    \cup {ApiError(0, "ETIMEDOUT", "")}

createChatCompletion(messages) ==
    /\ rt.pc = "idle"
    /\ LET err == createChatCompletionThrows(openaiClient, messages)
       IN rt' = IF err # ""
                THEN [rt EXCEPT !.pc = "threw", !.messages = messages, !.result = err]
                ELSE [rt EXCEPT !.pc = "request", !.messages = messages, !.requests = 1]
    /\ UNCHANGED <<messageHistory, systemMessage, clock, openaiClient, functions,
                   tasks, opsLeft, cleaned, ex, reg, view, oc, cli>>

requestSucceeds ==
    /\ rt.pc = "request"
    /\ rt' = [rt EXCEPT !.pc = "returned", !.result = "response",
                        !.responseOf = rt.requests]
    /\ UNCHANGED <<messageHistory, systemMessage, clock, openaiClient, functions,
                   tasks, opsLeft, cleaned, ex, reg, view, oc, cli>>

requestFails(error, jitter) ==
    /\ rt.pc = "request"
    /\ rt' = _executeWithRetryCatch(rt, error, jitter)
    /\ UNCHANGED <<messageHistory, systemMessage, clock, openaiClient, functions,
                   tasks, opsLeft, cleaned, ex, reg, view, oc, cli>>

\* _sleep(delay) is over: the loop issues the next request, or ends and
\* throws the last error
sleepEnds ==
    /\ rt.pc = "sleep"
    /\ rt' = IF rt.attempt + 1 <= maxRetries
             THEN [rt EXCEPT !.pc = "request", !.attempt = @ + 1, !.requests = @ + 1]
             ELSE [rt EXCEPT !.pc = "threw", !.attempt = @ + 1,
                             !.result = _handleApiError(rt.log[Len(rt.log)])]
    /\ UNCHANGED <<messageHistory, systemMessage, clock, openaiClient, functions,
                   tasks, opsLeft, cleaned, ex, reg, view, oc, cli>>

NextClient ==
    \/ \E messages \in Transcripts : createChatCompletion(messages)
    \/ requestSucceeds
    \/ \E error \in ApiErrors, jitter \in Jitters : requestFails(error, jitter)
    \/ sleepEnds

InitClient == Init /\ openaiClient \in {"OpenAIClient", "uninitialized"}

SpecClient == InitClient /\ [][NextClient]_vars

-----------------------------------------------------------------------------
(* FunctionRegistry: registration, and executeFunction / executeFunctionSafely *)
(* from one await to the next                                                *)

\* registerFunction on the map: unchanged when it throws
registerFunctionMap(map, name, schema, handler) ==
    IF registerFunctionThrows(name, schema, handler) # "" THEN map
    ELSE MapSet(map, name.val, FunctionData(name.val, schema, handler))

registerFunction(name, schema, handler) ==
    /\ opsLeft > 0
    /\ functions' = registerFunctionMap(functions, name, schema, handler)
    /\ reg' = [op |-> "registerFunction", name |-> name, schema |-> schema,
               handler |-> handler,
               threw |-> registerFunctionThrows(name, schema, handler)]
    /\ opsLeft' = opsLeft - 1
    /\ UNCHANGED <<messageHistory, systemMessage, clock, openaiClient, tasks,
                   cleaned, rt, ex, view, oc, cli>>

unregisterFunction(name) ==
    /\ opsLeft > 0
    /\ functions' = MapDelete(functions, name)
    /\ reg' = [op |-> "unregisterFunction", name |-> Str(name), schema |-> Absent,
               handler |-> Absent, threw |-> ""]
    /\ opsLeft' = opsLeft - 1
    /\ UNCHANGED <<messageHistory, systemMessage, clock, openaiClient, tasks,
                   cleaned, rt, ex, view, oc, cli>>

\* const { timeout = 5000 } = options
TimeoutOption(options) == IF options = Absent THEN 5000 ELSE options.val

\* executeFunction returns result at time t; executeFunctionSafely then adds
\* executionTime and timeout to it
Returned(e, result, t) ==
    [e EXCEPT !.pc = "returned", !.result = result, !.now = t,
              !.meta = IF e.api = "executeFunctionSafely"
                       THEN [executionTime |-> t, timeout |-> e.timeout]
                       ELSE Absent]

\* the catch of executeFunction, with an error that is an Error object with
\* this message or, when isNull, the value null or undefined: reading
\* error.message then throws a TypeError out of the catch block, which the
\* catch of executeFunctionSafely turns into a result
executeFunctionCatch(e, message, isNull, t) ==
    IF ~isNull
    THEN Returned(e, formatError("Function execution failed: " \o message,
                                 "EXECUTION_ERROR"), t)
    ELSE IF e.api = "executeFunctionSafely"
    THEN [e EXCEPT !.pc = "returned", !.now = t,
                   !.result = formatError(
                       "Unexpected error during function execution: "
                       \o "Cannot read properties of null (reading 'message')",
                       "UNEXPECTED_ERROR")]
    ELSE [e EXCEPT !.pc = "threw", !.thrown = "TypeError", !.now = t]

\* what a call logs before the handler is invoked
GateSteps(map, name) ==
    IF name \notin DOMAIN map THEN <<"get">>
    ELSE IF Truthy(map[name].schema.val.parameters)
    THEN <<"get", "validateArguments">>
    ELSE <<"get">>

\* the timer is armed and the handler invoked before the arguments are
\* validated
executeFunctionBody_RaceFirst(e, map, behaviour) ==
    LET gate == executeFunctionGates(map, e.name, e.args)
    IN IF e.name \notin DOMAIN map
       THEN Returned([e EXCEPT !.steps = <<"get">>], gate, 0)
       ELSE LET e1 == [e EXCEPT !.steps = <<"get", "setTimeout", "handler">>
                                          \o <<"validateArguments">>,
                                !.timer = "armed", !.handler = "pending",
                                !.behaviour = behaviour]
            IN IF gate # NoResult THEN Returned(e1, gate, 0)
               ELSE IF behaviour.kind = "throws"
               THEN executeFunctionCatch([e1 EXCEPT !.handler = "settled"],
                                         "boom", behaviour.value = "null", 0)
               ELSE [e1 EXCEPT !.pc = "racing"]

\* executeFunction up to its await: the gates, then the timer, then the
\* handler, whose synchronous throw is caught at once
executeFunctionBody(e, map, behaviour) ==
    LET gate == executeFunctionGates(map, e.name, e.args)
        e0 == [e EXCEPT !.steps = GateSteps(map, e.name)]
    IN IF gate # NoResult THEN Returned(e0, gate, 0)
       ELSE LET e1 == [e0 EXCEPT !.steps = @ \o <<"setTimeout", "handler">>,
                                 !.timer = "armed", !.handler = "pending",
                                 !.behaviour = behaviour]
            IN IF behaviour.kind = "throws"
               THEN executeFunctionCatch([e1 EXCEPT !.handler = "settled"],
                                         "boom", behaviour.value = "null", 0)
               ELSE [e1 EXCEPT !.pc = "racing"]

\* how a handler behaves once invoked: it returns a value, throws, returns a
\* promise that resolves or rejects at time at, or one that never settles;
\* what is thrown is an Error or null
Behaviour(kind, at, value) == [kind |-> kind, at |-> at, value |-> value]

HandlerBehaviours ==
    {Behaviour("returns", 0, "12:00"),
     Behaviour("throws", 0, "Error"), Behaviour("throws", 0, "null"),
     Behaviour("resolves", 100, "12:00"), Behaviour("resolves", 7000, "12:00"),
     Behaviour("rejects", 100, "Error"), Behaviour("rejects", 100, "null"),
     Behaviour("rejects", 7000, "Error"),
     Behaviour("never", 0, "")}

executeFunction(api, name, args, options, behaviour) ==
    /\ ex.pc = "idle"
    /\ ex' = executeFunctionBody(
                [ex EXCEPT !.api = api, !.name = name, !.args = args,
                           !.timeout = TimeoutOption(options)],
                functions, behaviour)
    /\ UNCHANGED <<messageHistory, systemMessage, clock, openaiClient, functions,
                   tasks, opsLeft, cleaned, rt, reg, view, oc, cli>>

\* the handler's promise settles before the timer fires
handlerSettles ==
    /\ ex.pc = "racing"
    /\ ex.handler = "pending"
    /\ ex.behaviour.kind \in {"returns", "resolves", "rejects"}
    /\ ex.behaviour.at < timeoutMs
    /\ ex' = IF ex.behaviour.kind = "rejects"
             THEN executeFunctionCatch([ex EXCEPT !.handler = "settled"], "boom",
                                       ex.behaviour.value = "null", ex.behaviour.at)
             ELSE Returned([ex EXCEPT !.handler = "settled", !.timer = "cleared"],
                           ExecutionSuccess(ex.behaviour.value), ex.behaviour.at)
    /\ UNCHANGED <<messageHistory, systemMessage, clock, openaiClient, functions,
                   tasks, opsLeft, cleaned, rt, reg, view, oc, cli>>

\* the timer fires: it rejects the race when the race is still on, and has no
\* effect after a call that ended without clearing it
timerFires ==
    /\ ex.timer = "armed"
    /\ ex.pc = "racing" => (ex.handler = "pending"
                            /\ (ex.behaviour.kind = "never" \/ ex.behaviour.at > timeoutMs))
    /\ ex' = IF ex.pc = "racing"
             THEN executeFunctionCatch([ex EXCEPT !.timer = "fired"],
                                       TimeoutMessage, FALSE, timeoutMs)
             ELSE [ex EXCEPT !.timer = "fired", !.now = timeoutMs]
    /\ UNCHANGED <<messageHistory, systemMessage, clock, openaiClient, functions,
                   tasks, opsLeft, cleaned, rt, reg, view, oc, cli>>

\* the handler's promise settles after the race was lost
lateSettlement ==
    /\ ex.pc \in {"returned", "threw"}
    /\ ex.timer = "fired"
    /\ ex.handler = "pending"
    /\ ex.behaviour.kind \in {"resolves", "rejects"}
    /\ ex' = [ex EXCEPT !.handler = "settled", !.now = ex.behaviour.at]
    /\ UNCHANGED <<messageHistory, systemMessage, clock, openaiClient, functions,
                   tasks, opsLeft, cleaned, rt, reg, view, oc, cli>>

WithBound(property, bound, n) == [property EXCEPT ![bound] = Number(n)]

\* the searchDatabase schema of the README with declared upper bounds
searchDatabaseSchema ==
    Schema(Str("searchDatabase"),
           Str("Search the database for records matching a query"),
           Parameters(Str("object"),
                      Obj([query |-> WithBound(Property("string"), "maxLength", 3),
                           limit |-> WithBound(Property("number"), "maximum", 10),
                           tags |-> WithBound(Property("array"), "maxItems", 2)]),
                      Arr(<<"query">>)))

\* a schema that lists a required key and declares no properties
pingSchema ==
    Schema(Str("ping"), Str("Ping a host"),
           Parameters(Str("object"), Absent, Arr(<<"host">>)))

TestRegistry ==
    registerFunctionMap(
        registerFunctionMap(BuiltIns, Str("searchDatabase"), searchDatabaseSchema, Callable),
        Str("ping"), pingSchema, Callable)

Query(text) == <<"query", Str(text)>>

\* the calls made: a name and an arguments value
TestCalls ==
    {<<"getWeather", Args(<<>>)>>,
     <<"getCurrentTime", Args(<<>>)>>,
     <<"getCurrentTime", Null>>,
     <<"calculateMath", Args(<<>>)>>,
     <<"calculateMath", Args(<<<<"expression", Str("2+2")>>>>)>>,
     <<"calculateMath", Args(<<<<"expression", Number(4)>>>>)>>,
     <<"searchDatabase", Args(<<<<"limit", Number(10)>>>>)>>,
     <<"searchDatabase", Args(<<Query("abc")>>)>>,
     <<"searchDatabase", Args(<<Query("abcd")>>)>>,
     <<"searchDatabase", Args(<<Query("abc"), <<"limit", Number(10)>>>>)>>,
     <<"searchDatabase", Args(<<Query("abc"), <<"limit", Number(11)>>>>)>>,
     <<"searchDatabase", Args(<<Query("abc"), <<"tags", Arr(<<Str("a"), Str("b")>>)>>>>)>>,
     <<"searchDatabase",
       Args(<<Query("abc"), <<"tags", Arr(<<Str("a"), Str("b"), Str("c")>>)>>>>)>>,
     <<"ping", Args(<<>>)>>,
     <<"ping", Args(<<<<"host", Str("example.org")>>>>)>>}

\* the ways executeFunction and executeFunctionSafely are called
TestApis ==
    {<<"executeFunction", Absent>>,
     <<"executeFunctionSafely", Absent>>,
     <<"executeFunctionSafely", Number(10000)>>}

\* the registrations made: name, schema, handler
TestRegistrations ==
    {<<Str("getCurrentTime"),
       Schema(Str("getCurrentTime"), Str("Tell the time"), Absent), Callable>>,
     <<Str("now"), getCurrentTimeSchema, Callable>>,
     <<Str(""), getCurrentTimeSchema, Callable>>,
     <<Str("getCurrentTime"), getCurrentTimeSchema, Str("12:00")>>,
     <<Str("getCurrentTime"),
       Schema(Absent, Str("Tell the time"), Absent), Callable>>,
     <<Str("getCurrentTime"),
       Schema(Str("getCurrentTime"), Absent, Absent), Callable>>,
     <<Str("getCurrentTime"),
       Schema(Str("getCurrentTime"), Str("Tell the time"),
              Parameters(Str("array"), Obj(<<>>), Absent)), Callable>>,
     <<Str("getCurrentTime"),
       Schema(Str("getCurrentTime"), Str("Tell the time"),
              Parameters(Str("object"), Str("none"), Absent)), Callable>>,
     <<Str("getCurrentTime"),
       Schema(Str("getCurrentTime"), Str("Tell the time"),
              Parameters(Str("object"), Obj(<<>>), Str("zone"))), Callable>>,
     <<Str("getCurrentTime"),
       Schema(Str("getCurrentTime"), Str("Tell the time"),
              Parameters(Str("object"), Obj(<<>>), Null)), Callable>>}

NextRegistry ==
    \/ \E r \in TestRegistrations : registerFunction(r[1], r[2], r[3])
    \/ \E name \in {"getCurrentTime", "getWeather"} : unregisterFunction(name)
    \/ \E call \in TestCalls, api \in TestApis, behaviour \in HandlerBehaviours :
         executeFunction(api[1], call[1], call[2], api[2], behaviour)
    \/ handlerSettles
    \/ timerFires
    \/ lateSettlement

InitRegistry ==
    /\ systemMessage = Message(1, "system", DefaultSystemPrompt, 0, Absent, "")
    /\ messageHistory = <<systemMessage>>
    /\ clock = 1
    /\ openaiClient = "OpenAIClient"
    /\ functions = TestRegistry
    /\ tasks = [t \in 1..MaxEvents |-> IdleTask]
    /\ opsLeft = MaxOps
    /\ cleaned = FALSE
    /\ rt = IdleClient
    /\ ex = IdleExecution
    /\ reg = IdleRegistration
    /\ view = IdleView
    /\ oc = NewClient
    /\ cli = NewCLI

SpecRegistry == InitRegistry /\ [][NextRegistry]_vars

\* the transcript operations alone, with enough appends to reach trimming
NextHistory ==
    \/ seedMessage("user", "ping")
    \/ \E p \in {Null, Str("Be brief.")} : startConversation(p)
    \/ \E role \in {"assistant", "system", "tool"}, content \in {Str("note"), Null},
          metadata \in {NoMetadata, CallerMetadata} :
         addMessage(role, content, metadata)
    \/ clearHistory
    \/ updateSystemMessage("Be brief.")
    \/ cleanup

InitHistory == Init /\ openaiClient = "OpenAIClient"

SpecHistory == InitHistory /\ [][NextHistory]_vars

-----------------------------------------------------------------------------
(* FunctionRegistry.sanitizeResult.  A value is a tagged record; an object *)
(* is Obj(<<key, value>> entries), an array Arr(items); Cycle(k) is a      *)
(* reference to the k-th enclosing object or array, counted from the one   *)
(* that holds it, which makes the value circular.                          *)

Promise == [type |-> "promise", val |-> "pending"]
Cycle(k) == [type |-> "cycle", val |-> k]

\* the RangeError of a call for which the stack has no room
RangeError == [type |-> "thrown", val |-> "RangeError"]

RECURSIVE HasCycle(_)
HasCycle(v) ==
    IF v = Absent THEN FALSE
    ELSE IF v.type = "cycle" THEN TRUE
    ELSE IF v.type = "object" THEN \E i \in 1..Len(v.val) : HasCycle(v.val[i][2])
    ELSE IF v.type = "array" THEN \E i \in 1..Len(v.val) : HasCycle(v.val[i])
    ELSE FALSE

\* JSON.stringify(v) throws: v is circular; functions, undefined and promises
\* are left out or written as {} without an error
JSONStringifyThrows(v) == HasCycle(v)

\* Object.getOwnPropertyNames(r) with the values: an array has its indices
\* and length
OwnProperties(r) ==
    IF r.type = "array"
    THEN [i \in 1..Len(r.val) |-> <<ToString(i - 1), r.val[i]>>]
         \o <<<<"length", Number(Len(r.val))>>>>
    ELSE r.val

\* what a property's value is: a reference is the object it refers to, with
\* the objects that enclose that one
Deref(v, stack) ==
    IF v # Absent /\ v.type = "cycle"
    THEN [value |-> stack[Len(stack) - v.val + 1],
          stack |-> SubSeq(stack, 1, Len(stack) - v.val)]
    ELSE [value |-> v, stack |-> stack]

\* what the stack running out does to the property being sanitized: the call
\* throws and the property is skipped, or the call is entered and falls back
\* to String(result)
OverflowOutcomes == {"skip", "string"}

RECURSIVE sanitizeResult(_, _, _, _)
RECURSIVE SanitizeProperties(_, _, _, _, _)

\* the reduce over the own properties: function values are left out, the
\* others sanitized, and a property whose sanitizing throws is skipped
SanitizeProperties(props, i, stack, depth, overflow) ==
    IF i > Len(props) THEN <<>>
    ELSE LET value == props[i][2]
             rest == SanitizeProperties(props, i + 1, stack, depth, overflow)
         IN IF value # Absent /\ value.type = "function" THEN rest
            ELSE LET sanitized == sanitizeResult(value, stack, depth - 1, overflow)
                 IN IF sanitized = RangeError THEN rest
                    ELSE <<<<props[i][1], sanitized>>>> \o rest

\* sanitizeResult rebuilding every object and array it is given
sanitizeResult_Rebuild(v, stack, depth, overflow) ==
    LET r == Deref(v, stack)
    IN IF depth = 0
       THEN IF overflow = "string" /\ r.value # Absent
               /\ r.value.type \in {"object", "array"}
            THEN Str("[object Object]") ELSE RangeError
       ELSE IF r.value = Absent \/ r.value.type \notin {"object", "array"} THEN r.value
       ELSE Obj(SanitizeProperties(OwnProperties(r.value), 1,
                                   Append(r.stack, r.value), depth, overflow))

\* sanitizeResult(result) called with room for depth nested calls; stack
\* holds the objects that enclose result
sanitizeResult(v, stack, depth, overflow) ==
    LET r == Deref(v, stack)
    IN IF depth = 0
       THEN IF overflow = "string" /\ r.value # Absent
               /\ r.value.type \in {"object", "array"}
            THEN Str("[object Object]") ELSE RangeError
       ELSE IF ~JSONStringifyThrows(r.value) THEN r.value
       ELSE Obj(SanitizeProperties(OwnProperties(r.value), 1,
                                   Append(r.stack, r.value), depth, overflow))

\* values a handler returns
Leaves == {Str("12:00"), Number(7), Null, Absent, Callable, Promise}

FlatObjects ==
    {Obj(<<<<"a", x>>>>) : x \in Leaves \cup {Cycle(1)}}
    \cup {Obj(<<<<"a", x>>, <<"b", y>>>>) : x \in Leaves, y \in Leaves \cup {Cycle(1)}}

NestedObjects ==
    {Obj(<<<<"a", x>>, <<"b", Obj(<<<<"c", y>>>>)>>>>) :
        x \in {Number(7), Callable, Cycle(1)},
        y \in {Str("12:00"), Callable, Promise, Cycle(1), Cycle(2)}}

Arrays ==
    {Arr(<<Number(7), x>>) : x \in {Str("12:00"), Callable, Cycle(1)}}

HandlerValues == Leaves \cup FlatObjects \cup NestedObjects \cup Arrays

\* sanitizeResult(value) called on its own
sanitizeResultCall(value, overflow) ==
    /\ ex.pc = "idle"
    /\ ex' = [IdleExecution EXCEPT
                !.pc = "sanitized", !.api = "sanitizeResult", !.args = value,
                !.steps = <<"sanitizeResult", overflow>>,
                !.result = sanitizeResult(value, <<>>, StackDepth, overflow)]
    /\ UNCHANGED <<messageHistory, systemMessage, clock, openaiClient, functions,
                   tasks, opsLeft, cleaned, rt, reg, view, oc, cli>>

\* sanitizeResult called on what it returned; meta keeps the first result
sanitizeResultAgain ==
    /\ ex.pc = "sanitized"
    /\ ex' = [ex EXCEPT
                !.pc = "sanitizedAgain", !.meta = ex.result,
                !.result = sanitizeResult(ex.result, <<>>, StackDepth, ex.steps[2])]
    /\ UNCHANGED <<messageHistory, systemMessage, clock, openaiClient, functions,
                   tasks, opsLeft, cleaned, rt, reg, view, oc, cli>>

\* executeFunctionSafely('getCurrentTime', {}, {timeout: 10000,
\* sanitizeResults}) with a handler that returns value: a pending promise
\* loses the race against the timer, any other value is the result
executeFunctionSafelyReturns(value, sanitizeResults, overflow) ==
    /\ ex.pc = "idle"
    /\ "getCurrentTime" \in DOMAIN functions
    /\ LET e == [IdleExecution EXCEPT
                   !.api = "executeFunctionSafely", !.name = "getCurrentTime",
                   !.args = Args(<<>>), !.timeout = TimeoutOption(Number(10000)),
                   !.behaviour = Behaviour("returns", 0, value),
                   !.steps = GateSteps(functions, "getCurrentTime")
                             \o <<"setTimeout", "handler">>]
       IN ex' = IF value = Promise
                THEN executeFunctionCatch(
                         [e EXCEPT !.timer = "fired", !.handler = "pending"],
                         TimeoutMessage, FALSE, timeoutMs)
                ELSE IF sanitizeResults
                THEN Returned([e EXCEPT !.steps = @ \o <<"sanitizeResult">>,
                                        !.handler = "settled", !.timer = "cleared"],
                              ExecutionSuccess(
                                  sanitizeResult(value, <<>>, StackDepth, overflow)), 0)
                ELSE Returned([e EXCEPT !.handler = "settled", !.timer = "cleared"],
                              ExecutionSuccess(value), 0)
    /\ UNCHANGED <<messageHistory, systemMessage, clock, openaiClient, functions,
                   tasks, opsLeft, cleaned, rt, reg, view, oc, cli>>

NextSanitize ==
    \/ \E value \in HandlerValues, overflow \in OverflowOutcomes :
         sanitizeResultCall(value, overflow)
    \/ sanitizeResultAgain
    \/ \E value \in HandlerValues, sanitizeResults \in BOOLEAN,
          overflow \in OverflowOutcomes :
         executeFunctionSafelyReturns(value, sanitizeResults, overflow)

InitSanitize == InitRegistry

SpecSanitize == InitSanitize /\ [][NextSanitize]_vars

-----------------------------------------------------------------------------
(* ChatManager.trimToTokenLimit on lists of formatted messages *)

Formatted(role, content, fc) ==
    [role |-> role, content |-> content, function_call |-> fc, name |-> ""]

\* estimates: 36, 11, 20, 21 and 13 tokens
TokenMessages ==
    {Formatted("system", DefaultSystemPrompt, Absent),
     Formatted("user", "ping", Absent),
     Formatted("user", "Tell me what the time is in Paris, then.", Absent),
     Formatted("assistant", "", [name |-> "getCurrentTime", arguments |-> "{}"]),
     Formatted("system", "Be brief.", Absent)}

RECURSIVE ListsUpTo(_)
ListsUpTo(n) ==
    IF n = 0 THEN {<<>>}
    ELSE ListsUpTo(n - 1)
         \cup {Append(l, m) : l \in {x \in ListsUpTo(n - 1) : Len(x) = n - 1},
                              m \in TokenMessages}

TokenBudgets == {5, 36, 47, 57, 68, 200}

\* trimToTokenLimit(messages, maxTokens); find and filter copy, so messages is
\* left as it was
trimToTokenLimitCall(messages, maxTokens) ==
    /\ view.op = ""
    /\ view' = [op |-> "trimToTokenLimit", messages |-> messages,
                maxTokens |-> maxTokens,
                result |-> trimToTokenLimit(messages, maxTokens)]
    /\ UNCHANGED <<messageHistory, systemMessage, clock, openaiClient, functions,
                   tasks, opsLeft, cleaned, rt, ex, reg, oc, cli>>

NextTokens ==
    \E messages \in ListsUpTo(MaxLen), maxTokens \in TokenBudgets :
        trimToTokenLimitCall(messages, maxTokens)

InitTokens == InitHistory

SpecTokens == InitTokens /\ [][NextTokens]_vars

-----------------------------------------------------------------------------
(* A conversation that goes on after a turn: the caller awaits the turn and *)
(* then keeps appending messages                                            *)

appendAfterTurn(role, content) ==
    /\ tasks[1].pc = "returned"
    /\ seedMessage(role, content)

NextLong ==
    \/ \E call \in TurnCalls : nextTurn(1, call)
    \/ \E o \in TurnOutcomes : completionOfTurn(1, o)
    \/ \E r \in ExecutionResults : functionSettles(1, r)
    \/ appendAfterTurn("user", "ping")

InitLong == InitTurns

SpecLong == InitLong /\ [][NextLong]_vars

-----------------------------------------------------------------------------
(* OpenAIClient: the stored configuration and the request parameters *)

\* NaN: a number that every comparison rejects
NaN == [type |-> "number", val |-> 0, nan |-> TRUE]

\* an options object; Absent stands for a key that is not passed
Options(model, temperature, maxTokens) ==
    [model |-> model, temperature |-> temperature, maxTokens |-> maxTokens]

\* {...config, ...options}
Spread(config, options) ==
    [k \in DOMAIN config |-> IF options[k] # Absent THEN options[k] ELSE config[k]]

\* the message of the error _validateConfig throws for config, or ""
_validateConfig(config) ==
    IF TypeOf(config.model) # "string" \/ Trim(config.model.val) = ""
    THEN "Model must be a non-empty string"
    ELSE IF \/ TypeOf(config.temperature) # "number"
            \/ (config.temperature # NaN
                /\ (config.temperature.val < 0 \/ config.temperature.val > 20))
    THEN "Temperature must be a number between 0 and 2"
    ELSE IF \/ TypeOf(config.maxTokens) # "number"
            \/ (config.maxTokens # NaN
                /\ (config.maxTokens.val < 1 \/ config.maxTokens.val > 4096))
    THEN "Max tokens must be a number between 1 and 4096"
    ELSE ""

\* the message of the error initialize throws for apiKey before it touches
\* the configuration, or ""
ApiKeyError(apiKey) ==
    IF ~Truthy(apiKey) \/ TypeOf(apiKey) # "string" \/ Trim(apiKey.val) = ""
    THEN "OpenAI API key is required and must be a non-empty string"
    ELSE IF ~(Len(apiKey.val) >= 3 /\ SubSeq(apiKey.val, 1, 3) = "sk-")
    THEN "Invalid OpenAI API key format. API key should start with \"sk-\""
    ELSE ""

\* updateConfig(newConfig): the merged configuration is stored, then validated
updateConfig(newConfig) ==
    /\ oc' = [oc EXCEPT !.op = "updateConfig",
                        !.config = Spread(oc.config, newConfig),
                        !.threw = _validateConfig(Spread(oc.config, newConfig))]
    /\ UNCHANGED <<messageHistory, systemMessage, clock, openaiClient, functions,
                   tasks, opsLeft, cleaned, rt, ex, reg, view, cli>>

\* initialize(apiKey, options): keyAccepted is whether the endpoint accepts
\* the key when _validateApiKey lists the models
initialize(apiKey, options, keyAccepted) ==
    /\ openaiClient \in {"OpenAIClient", "uninitialized"}
    /\ IF ApiKeyError(apiKey) # ""
       THEN /\ oc' = [oc EXCEPT !.op = "initialize", !.threw = ApiKeyError(apiKey)]
            /\ UNCHANGED openaiClient
       ELSE IF _validateConfig(Spread(oc.config, options)) # ""
       THEN /\ oc' = [oc EXCEPT !.op = "initialize",
                                !.config = Spread(oc.config, options),
                                !.threw = _validateConfig(Spread(oc.config, options))]
            /\ UNCHANGED openaiClient
       ELSE /\ oc' = [oc EXCEPT !.op = "initialize",
                                !.config = Spread(oc.config, options),
                                !.threw = IF keyAccepted THEN ""
                                          ELSE _handleApiError(ApiError(401, "", ""))]
            /\ openaiClient' = IF keyAccepted THEN "OpenAIClient" ELSE "uninitialized"
    /\ UNCHANGED <<messageHistory, systemMessage, clock, functions,
                   tasks, opsLeft, cleaned, rt, ex, reg, view, cli>>

\* the requestParams of createChatCompletion, but for the messages:
\* {model, temperature, max_tokens, ...options}
RequestParams(config, options) ==
    [model |-> config.model,
     temperature |-> IF options.temperature # Absent THEN options.temperature
                     ELSE config.temperature,
     max_tokens |-> config.maxTokens]

\* createChatCompletion(messages, functions, options) on a client that is
\* ready, up to its request
createChatCompletionWith(options) ==
    /\ openaiClient = "OpenAIClient"
    /\ oc' = [oc EXCEPT !.op = "createChatCompletion", !.threw = "",
                        !.request = RequestParams(oc.config, options)]
    /\ UNCHANGED <<messageHistory, systemMessage, clock, openaiClient, functions,
                   tasks, opsLeft, cleaned, rt, ex, reg, view, cli>>

TestConfigs ==
    {Options(m, t, k) : m \in {Absent, Str("")},
                        t \in {Absent, Number(20), Number(21), NaN},
                        k \in {Absent, Number(4097)}}

\* the options of initialize: a temperature or none
TestInitializeOptions ==
    {o \in TestConfigs : o.model = Absent /\ o.maxTokens = Absent}

TestApiKeys == {Str("sk-test"), Str("pk-test"), Null}

\* the temperature option of processMessage, passed on as it is
TestRequestOptions ==
    {Options(Absent, t, Absent) : t \in {Absent, Number(3), Number(30)}}

NextConfig ==
    \/ \E newConfig \in TestConfigs : updateConfig(newConfig)
    \/ \E apiKey \in TestApiKeys, options \in TestInitializeOptions,
          keyAccepted \in BOOLEAN :
         initialize(apiKey, options, keyAccepted)
    \/ \E options \in TestRequestOptions : createChatCompletionWith(options)

InitConfig == Init /\ openaiClient = "uninitialized"

SpecConfig == InitConfig /\ [][NextConfig]_vars

-----------------------------------------------------------------------------
(* AgentCLI (src/index.js): start, the exit triggers and handleExit, from  *)
(* one await to the next                                                    *)

ExitTriggers == {"exit command", "readline SIGINT", "readline close", "process signal"}

\* a call of handleExit: pc is "saving" while saveConversationState awaits,
\* "cleanup" before cleanupResources runs, "done" once it has returned
ExitCall(trigger, pc) == [trigger |-> trigger, pc |-> pc]

\* the conversation is worth saving
Meaningful(stats) ==
    stats.totalMessages > 0 /\ (stats.userMessages > 0 \/ stats.assistantMessages > 0)

\* handleExit without the isRunning guard
handleExitEnter_Unguarded(c, h, trigger) ==
    [c EXCEPT !.isRunning = FALSE,
              !.exits = Append(@, ExitCall(trigger,
                            IF Meaningful(getConversationStats(h))
                            THEN "saving" ELSE "cleanup"))]

\* handleExit up to its first await: it returns at once unless the CLI is
\* running, and else goes on to saveConversationState, which reads the stats
handleExitEnter(c, h, trigger) ==
    IF ~c.isRunning
    THEN [c EXCEPT !.exits = Append(@, ExitCall(trigger, "done"))]
    ELSE [c EXCEPT !.isRunning = FALSE,
                   !.exits = Append(@, ExitCall(trigger,
                                 IF Meaningful(getConversationStats(h))
                                 THEN "saving" ELSE "cleanup"))]

\* start(): the readline interface was set up by initialize
start ==
    /\ cli.rl = "none"
    /\ ~cli.isRunning
    /\ cli.exits = <<>>
    /\ cli' = [cli EXCEPT !.isRunning = TRUE, !.rl = "open"]
    /\ UNCHANGED <<messageHistory, systemMessage, clock, openaiClient, functions,
                   tasks, opsLeft, cleaned, rt, ex, reg, view, oc>>

\* a line of the user: its turn appends the user message and awaits the reply
lineArrives ==
    /\ cli.rl = "open"
    /\ cli.isRunning
    /\ clock < 1 + 2 * MaxLines
    /\ messageHistory' = addToHistory(messageHistory, clock, "user", "ping", NoMetadata)
    /\ clock' = clock + 1
    /\ cli' = [cli EXCEPT !.pending = @ + 1]
    /\ UNCHANGED <<systemMessage, openaiClient, functions,
                   tasks, opsLeft, cleaned, rt, ex, reg, view, oc>>

\* the reply of a turn in flight is appended, whatever the CLI is doing
replyArrives ==
    /\ cli.pending > 0
    /\ messageHistory' = addToHistory(messageHistory, clock, "assistant", "pong",
                                      NoMetadata)
    /\ clock' = clock + 1
    /\ cli' = [cli EXCEPT !.pending = @ - 1]
    /\ UNCHANGED <<systemMessage, openaiClient, functions,
                   tasks, opsLeft, cleaned, rt, ex, reg, view, oc>>

\* an exit trigger calls handleExit: the exit command and the readline events
\* need the interface, and its close event closes it; process signals are
\* handled from the beginning of main
exitTrigger(trigger) ==
    /\ Len(cli.exits) < MaxExits
    /\ trigger # "process signal" => cli.rl = "open"
    /\ cli' = [handleExitEnter(cli, messageHistory, trigger) EXCEPT
                 !.rl = IF trigger = "readline close" THEN "closed" ELSE @]
    /\ UNCHANGED <<messageHistory, systemMessage, clock, openaiClient, functions,
                   tasks, opsLeft, cleaned, rt, ex, reg, view, oc>>

\* saveConversationState after its awaits: it reads the messages and writes
\* the file, unless the write fails
saveConversationState(i, written) ==
    /\ i \in 1..Len(cli.exits)
    /\ cli.exits[i].pc = "saving"
    /\ cli' = IF written
              THEN [cli EXCEPT !.exits[i].pc = "cleanup",
                               !.saves = @ + 1,
                               !.saved = getHistory(messageHistory, FALSE),
                               !.savedAfter = cli.cleanups]
              ELSE [cli EXCEPT !.exits[i].pc = "cleanup"]
    /\ UNCHANGED <<messageHistory, systemMessage, clock, openaiClient, functions,
                   tasks, opsLeft, cleaned, rt, ex, reg, view, oc>>

\* cleanupResources: rl.close() emits the close event, whose handler calls
\* handleExit, and ChatManager.cleanup empties the transcript
cleanupResources(i) ==
    /\ i \in 1..Len(cli.exits)
    /\ cli.exits[i].pc = "cleanup"
    /\ LET c == [cli EXCEPT !.exits[i].pc = "done", !.cleanups = @ + 1]
       IN cli' = IF cli.rl = "open"
                 THEN [handleExitEnter(c, messageHistory, "readline close")
                       EXCEPT !.rl = "none"]
                 ELSE [c EXCEPT !.rl = "none"]
    /\ messageHistory' = <<>>
    /\ cleaned' = TRUE
    /\ UNCHANGED <<systemMessage, clock, openaiClient, functions,
                   tasks, opsLeft, rt, ex, reg, view, oc>>

NextExit ==
    \/ start
    \/ lineArrives
    \/ replyArrives
    \/ \E trigger \in ExitTriggers : exitTrigger(trigger)
    \/ \E i \in 1..MaxExits, written \in BOOLEAN : saveConversationState(i, written)
    \/ \E i \in 1..MaxExits : cleanupResources(i)

InitExit == InitHistory

SpecExit == InitExit /\ [][NextExit]_vars

-----------------------------------------------------------------------------
(* Properties *)

Returns(t) == tasks[t].pc # "returned" /\ tasks'[t].pc = "returned"

Starts(t) == tasks[t].pc = "idle" /\ tasks'[t].pc # "idle"

CountRole(h, role) == Cardinality({i \in 1..Len(h) : h[i].role = role})

\* the endpoint answers the first request with a call of a registered
\* function with parseable arguments and every later request with the text
\* FinalText
CallThenText(trace) ==
    /\ Len(trace) >= 1
    /\ trace[1].kind = "response"
    /\ trace[1].function_call # Absent
    /\ trace[1].function_call.name \in DOMAIN functions
    /\ trace[1].function_call.arguments = "{}"
    /\ \A i \in 2..Len(trace) : trace[i] = TextResponse(FinalText)

\* h ends with user, assistant(functionCall), function(name), assistant(text)
EndsWithTurn(h, userText, functionCall, text) ==
    /\ Len(h) >= 4
    /\ LET n == Len(h)
       IN /\ h[n - 3].role = "user" /\ h[n - 3].content = userText
          /\ h[n - 2].role = "assistant" /\ h[n - 2].content = ""
          /\ h[n - 2].function_call = functionCall
          /\ h[n - 1].role = "function" /\ h[n - 1].name = functionCall.name
          /\ h[n].role = "assistant" /\ h[n].content = text
          /\ h[n].function_call = Absent

\* C1: a processMessage call on the repository's OpenAIClient, undisturbed by
\* other operations, whose first completion requests a registered function and
\* whose next completion is the text T, returns {success: true, message: T}
\* with the transcript ending in user, assistant(functionCall),
\* function(result), assistant(T).
C1_CallThenTextSucceeds ==
    [][\A t \in 1..MaxEvents :
        (/\ Returns(t)
         /\ openaiClient = "OpenAIClient"
         /\ tasks'[t].kind = "processMessage"
         /\ opsLeft' = MaxOps
         /\ CallThenText(tasks'[t].trace))
        => /\ tasks'[t].result.success
           /\ tasks'[t].result.message = FinalText
           /\ EndsWithTurn(messageHistory', "What time is it?",
                           tasks'[t].trace[1].function_call, FinalText)]_vars

WellFormedEnvelope(e) ==
    \/ e.success /\ e.error = ""
    \/ ~e.success /\ e.message # ""
       /\ e.error \in {"PROCESSING_ERROR", "FUNCTION_EXECUTION_ERROR"}

\* C2: no invocation of processMessage ends by throwing; every invocation that
\* has returned holds an envelope, and a failed one has a message and an error
\* kind.
C2_NoFaultEscapes ==
    \A t \in 1..MaxEvents :
        /\ tasks[t].pc # "threw"
        /\ tasks[t].pc = "returned" => WellFormedEnvelope(tasks[t].result)

C2_Witness ==
    \E t \in 1..MaxEvents :
        /\ tasks[t].pc = "returned"
        /\ tasks[t].result.error = "FUNCTION_EXECUTION_ERROR"
        /\ tasks[t].sent = 3

\* userInput is not text, or is empty or whitespace only
BlankOrNotText(v) ==
    \/ v.type # "string"
    \/ \A i \in 1..Len(v.val) : SubSeq(v.val, i, i) \in {" ", "\t", "\n"}

\* C3: an invocation started with an empty, whitespace-only or non-text
\* userInput returns {success: false} at once, appends no user message and
\* issues no completion request.
C3_InvalidInputRejected ==
    [][\A t \in 1..MaxEvents :
        (Starts(t) /\ BlankOrNotText(tasks'[t].input))
        => /\ tasks'[t].pc = "returned"
           /\ ~tasks'[t].result.success
           /\ tasks'[t].sent = 0
           /\ tasks'[t].request = <<>>
           /\ CountRole(messageHistory', "user") = CountRole(messageHistory, "user")]_vars

C3_Witness ==
    \E t \in 1..MaxEvents :
        /\ tasks[t].pc = "returned"
        /\ tasks[t].input = Str("  ")
        /\ ~tasks[t].result.success
        /\ tasks[t].sent = 0
        /\ CountRole(messageHistory, "user") = 0
        /\ CountRole(messageHistory, "assistant") = 1

\* a step that appends to a full transcript
AppendsToFull ==
    /\ Len(messageHistory) = maxHistoryLength
    /\ clock' = clock + 1
    /\ Len(messageHistory') > 1

\* C4: the transcript never has more than 20 entries, and an append to a
\* transcript of 20 yields its first entry (the system message, unless cleanup
\* emptied the transcript before), then its last 18 entries in order, then the
\* new entry.
C4_CountTrim ==
    [][/\ Len(messageHistory') <= 20
       /\ AppendsToFull =>
            /\ Len(messageHistory') = 20
            /\ messageHistory'[1] = messageHistory[1]
            /\ ~cleaned => messageHistory'[1].role = "system"
            /\ \A i \in 2..19 : messageHistory'[i] = messageHistory[i + 1]
            /\ messageHistory'[20].id = clock']_vars

C4_Witness ==
    /\ Len(messageHistory) = 20
    /\ messageHistory[1] = systemMessage
    /\ messageHistory[2].id = 5
    /\ messageHistory[20].id = 23

\* C5 as claimed: in every reachable state the transcript is non-empty and
\* its first entry is the system message.
C5_SystemFirstAlways ==
    /\ Len(messageHistory) >= 1
    /\ messageHistory[1].role = "system"

\* C5 amended: as long as cleanup has not run, the transcript is non-empty and
\* its first entry is a system message.
C5_SystemFirstUntilCleanup ==
    ~cleaned => /\ Len(messageHistory) >= 1
                /\ messageHistory[1].role = "system"

C5_Witness ==
    /\ ~cleaned
    /\ opsLeft = 0
    /\ Len(messageHistory) = 1
    /\ \E t \in 1..MaxEvents : tasks[t].pc = "returned" /\ tasks[t].result.success

StartsWith(s, prefix) ==
    Len(s) >= Len(prefix) /\ SubSeq(s, 1, Len(prefix)) = prefix

\* the classification the error taxonomy gives an endpoint error
Classified(error, message) ==
    CASE error.status = 401 -> StartsWith(message, "Authentication failed")
      [] error.status = 403 -> StartsWith(message, "Access forbidden")
      [] error.status = 400 -> StartsWith(message, "Bad request")
      [] error.status = 404 -> StartsWith(message, "Model not found")
      [] error.status = 429 -> StartsWith(message, "Rate limit exceeded")
      [] error.status \in 500..599 -> StartsWith(message, "OpenAI server error")
      [] error.status = 0 -> StartsWith(message, "Network error")
      [] OTHER -> StartsWith(message, "OpenAI API request failed")

\* C6: one call of createChatCompletion issues at most 4 requests; when 4
\* requests have failed the call has thrown the classification of the last
\* error.
C6_AtMostFourRequests ==
    /\ rt.requests <= 4
    /\ Len(rt.log) <= 4
    /\ Len(rt.log) = 4 =>
        /\ rt.pc = "threw"
        /\ rt.requests = 4
        /\ Classified(rt.log[4], rt.result)

C6_Witness ==
    /\ rt.pc = "threw"
    /\ rt.requests = 4
    /\ Len(rt.log) = 4
    /\ rt.log[3].status = 429
    /\ rt.log[4].status = 500
    /\ Len(rt.delays) = 3

\* C7: a request that fails with status 400, 401, 403 or 404 is the last
\* request of the call: the call has thrown its classification, no request was
\* issued and no backoff delay slept after it.
C7_TerminalNeverRetried ==
    \A i \in 1..Len(rt.log) :
        rt.log[i].status \in {400, 401, 403, 404}
        => /\ rt.pc = "threw"
           /\ i = Len(rt.log)
           /\ rt.requests = i
           /\ Len(rt.delays) = i - 1
           /\ Classified(rt.log[i], rt.result)

C7_Witness ==
    /\ rt.pc = "threw"
    /\ Len(rt.log) = 2
    /\ rt.log[1].status = 429
    /\ rt.log[2].status = 404
    /\ rt.requests = 2
    /\ Len(rt.delays) = 1

\* C8: the backoff before retry k (from 0) lies in [2^k*1000, 2^k*1000 + 1000);
\* after the failures rate-limit, rate-limit and then a success the call has
\* issued 3 requests, returned the third response and slept at least 3000 ms.
C8_Backoff ==
    /\ \A k \in 1..Len(rt.delays) :
        /\ rt.delays[k] >= (2 ^ (k - 1)) * 1000
        /\ rt.delays[k] < (2 ^ (k - 1)) * 1000 + 1000
    /\ (/\ rt.pc = "returned"
        /\ Len(rt.log) = 2
        /\ rt.log[1].status = 429
        /\ rt.log[2].status = 429)
       => /\ rt.requests = 3
          /\ rt.responseOf = 3
          /\ Len(rt.delays) = 2
          /\ rt.delays[1] + rt.delays[2] >= 1000 + 2000
          /\ rt.delays[1] < rt.delays[2]

C8_Witness ==
    /\ rt.pc = "returned"
    /\ Len(rt.log) = 2
    /\ rt.log[1].status = 429
    /\ rt.log[2].status = 429
    /\ rt.responseOf = 3
    /\ rt.delays = <<1999, 2000>>

\* a status code outside the recognised ones
Unrecognised(error) ==
    /\ error.status # 0
    /\ error.status \notin {400, 401, 403, 404, 429}
    /\ error.status \notin 500..599

\* C9 as claimed: a request that fails with an unrecognised status code is the
\* last request of the call, which has thrown the generic request-failed
\* error without retry.
C9_UnknownStatusTerminal ==
    \A i \in 1..Len(rt.log) :
        Unrecognised(rt.log[i])
        => /\ rt.pc = "threw"
           /\ i = Len(rt.log)
           /\ rt.requests = i
           /\ StartsWith(rt.result, "OpenAI API request failed")

\* the transcripts the completion client is specified to accept
WellFormedTranscript(messages) ==
    /\ Len(messages) > 0
    /\ \A i \in 1..Len(messages) :
        /\ messages[i].role # ""
        /\ \/ messages[i].content # ""
           \/ messages[i].role = "assistant" /\ messages[i].function_call # Absent

\* C10 as claimed: the initialized client rejects a transcript before any
\* request exactly when it is empty or has an entry lacking role or content
\* that is not a function-call-only assistant entry.
C10_AcceptsFunctionCallEntries ==
    (openaiClient = "OpenAIClient" /\ rt.pc # "idle")
    => ((rt.pc = "threw" /\ rt.requests = 0) <=> ~WellFormedTranscript(rt.messages))

-----------------------------------------------------------------------------
(* Properties of the FunctionRegistry *)

\* a step that calls executeFunction or executeFunctionSafely
CallStep == ex.pc = "idle" /\ ex'.pc # "idle"

Logged(e, step) == \E i \in 1..Len(e.steps) : e.steps[i] = step

LoggedBefore(e, a, b) ==
    \E i, j \in 1..Len(e.steps) : i < j /\ e.steps[i] = a /\ e.steps[j] = b

\* the handler was not invoked and no timer was armed
NothingStarted(e) ==
    /\ e.timer = "none"
    /\ e.handler = "none"
    /\ ~Logged(e, "handler")
    /\ ~Logged(e, "setTimeout")

\* C11: execute resolves existence, then argument validation, then
\* execution: a call of an unregistered name returns FUNCTION_NOT_FOUND, a
\* call whose arguments fail validation returns VALIDATION_ERROR, in both
\* cases with the handler never invoked and no timer armed, and the handler
\* runs only for a registered name after the validation has passed.
C11_GatesInOrder ==
    [][/\ CallStep =>
            /\ ex'.name \notin DOMAIN functions =>
                 /\ ex'.pc = "returned"
                 /\ ex'.result.error.type = "FUNCTION_NOT_FOUND"
            /\ (/\ ex'.name \in DOMAIN functions
                /\ Truthy(functions[ex'.name].schema.val.parameters)
                /\ validateArguments(ex'.args,
                                     functions[ex'.name].schema.val.parameters.val) # "") =>
                 /\ ex'.pc = "returned"
                 /\ ex'.result.error.type = "VALIDATION_ERROR"
            /\ Logged(ex', "handler") =>
                 /\ ex'.name \in DOMAIN functions
                 /\ ex'.steps[1] = "get"
                 /\ Truthy(functions[ex'.name].schema.val.parameters) =>
                      /\ LoggedBefore(ex', "validateArguments", "setTimeout")
                      /\ validateArguments(ex'.args,
                             functions[ex'.name].schema.val.parameters.val) = ""
                 /\ LoggedBefore(ex', "setTimeout", "handler")
       /\ ex'.result.error.type \in {"FUNCTION_NOT_FOUND", "VALIDATION_ERROR"} =>
            NothingStarted(ex')]_vars

C11_Witness ==
    /\ ex.pc = "returned"
    /\ ex.name = "calculateMath"
    /\ ex.result.error.type = "VALIDATION_ERROR"
    /\ ex.steps = <<"get", "validateArguments">>
    /\ NothingStarted(ex)

\* the kind of the specification's taxonomy for an error type of the code
Kind(errorType) ==
    CASE errorType = "FUNCTION_NOT_FOUND" -> "NotFound"
      [] errorType = "VALIDATION_ERROR" -> "ValidationError"
      [] errorType = "TIMEOUT_ERROR" -> "TimeoutError"
      [] errorType = "EXECUTION_ERROR" -> "ExecutionError"
      [] errorType = "UNEXPECTED_ERROR" -> "UnexpectedError"
      [] OTHER -> "none"

WellFormedResult(r) ==
    \/ r.success /\ r.result # ""
    \/ /\ ~r.success
       /\ r.error.message # ""
       /\ Kind(r.error.type) \in {"NotFound", "ValidationError", "TimeoutError",
                                  "ExecutionError", "UnexpectedError"}

\* C12: no call of executeFunction or executeFunctionSafely ends by throwing;
\* a call that has ended holds a result that is a success with a result or a
\* failure with an error message and one of the five kinds.
C12_NoExceptionCrosses ==
    /\ ex.pc # "threw"
    /\ ex.pc = "returned" => WellFormedResult(ex.result)

\* the call lost the race against the timer
TimedOut(e) ==
    /\ e.pc \in {"returned", "threw"}
    /\ Logged(e, "handler")
    /\ e.timer = "fired"
    /\ e.behaviour.kind = "never" \/ e.behaviour.at > timeoutMs

\* the handler's promise settles after the call has ended
LateStep ==
    /\ ex.pc \in {"returned", "threw"}
    /\ ex.handler = "pending"
    /\ ex'.handler = "settled"

LateStepChangesNothing ==
    LateStep => /\ ex'.pc = ex.pc
                /\ ex'.result = ex.result
                /\ ex'.meta = ex.meta
                /\ functions' = functions
                /\ messageHistory' = messageHistory

\* C13: a call whose handler does not settle before the timeout
\* returns a failure of kind TimeoutError when the timeout elapses, and a
\* later settlement of the handler changes neither the result, the registry
\* nor the transcript.
C13_TimeoutErrorKind ==
    [][/\ TimedOut(ex') => /\ ex'.pc = "returned"
                           /\ ~ex'.result.success
                           /\ Kind(ex'.result.error.type) = "TimeoutError"
       /\ LateStepChangesNothing]_vars

\* what executeFunction returns for such a call: when the 5000 ms of the
\* registry have elapsed, a failure of kind ExecutionError whose message
\* reports the timeout; a later settlement of the handler changes neither the
\* result, the registry nor the transcript.
TimeoutIsExecutionError ==
    [][/\ TimedOut(ex') =>
            /\ ex'.pc = "returned"
            /\ ~ex'.result.success
            /\ Kind(ex'.result.error.type) = "ExecutionError"
            /\ ex'.result.error.message =
                 "Function execution failed: Function execution timeout after 5000ms"
       /\ (ex.pc = "racing" /\ TimedOut(ex')) => ex'.now = 5000
       /\ LateStepChangesNothing]_vars

TimeoutReported ==
    /\ TimedOut(ex)
    /\ ex.behaviour.kind = "rejects"
    /\ ex.handler = "settled"
    /\ ex.now = 7000
    /\ ex.result.error.type = "EXECUTION_ERROR"

\* C14: executeFunctionSafely(name, args, {timeout: T}) races the handler
\* against T: with T = 10000 a handler that settles with a value after 7000 ms
\* yields a success result, and the result's timeout field is T.
C14_CallerTimeoutWins ==
    (/\ ex.pc = "returned"
     /\ ex.api = "executeFunctionSafely"
     /\ ex.timeout = 10000
     /\ ex.behaviour.kind = "resolves"
     /\ ex.behaviour.at < ex.timeout)
    => /\ ex.result.success
       /\ ex.meta # Absent
       /\ ex.meta.timeout = ex.timeout

IsArgs(args) == args # Absent /\ args.type = "object"

\* the keys the schema lists as required that args omits
MissingKeys(args, schema) ==
    IF ~Truthy(schema.val.parameters) THEN {}
    ELSE LET required == schema.val.parameters.val.required
         IN IF ~Truthy(required) \/ required.type # "array" THEN {}
            ELSE {required.val[i] : i \in {j \in 1..Len(required.val) :
                                             ~HasKey(args, required.val[j])}}

\* C15: a call of a registered function whose arguments omit a key that the
\* schema lists as required returns a VALIDATION_ERROR naming an omitted key
\* and does not invoke the handler, whether or not the schema declares
\* properties.
C15_MissingRequiredRejected ==
    [][(/\ CallStep
        /\ ex'.name \in DOMAIN functions
        /\ IsArgs(ex'.args)
        /\ MissingKeys(ex'.args, functions[ex'.name].schema) # {})
       => /\ ex'.pc = "returned"
          /\ ex'.result.error.type = "VALIDATION_ERROR"
          /\ \E k \in MissingKeys(ex'.args, functions[ex'.name].schema) :
                ex'.result.error.message = "Missing required parameter: " \o k
          /\ NothingStarted(ex')]_vars

\* an argument exceeds the upper bound its property declares
Exceeds(args, properties) ==
    \E i \in 1..Len(args.val) :
        LET key == args.val[i][1]
            value == args.val[i][2]
        IN /\ key \in DOMAIN properties
           /\ \/ /\ properties[key].type \in {"number", "integer"}
                 /\ properties[key].maximum # Absent
                 /\ value.val > properties[key].maximum.val
              \/ /\ properties[key].type = "string"
                 /\ properties[key].maxLength # Absent
                 /\ Len(value.val) > properties[key].maxLength.val
              \/ /\ properties[key].type = "array"
                 /\ properties[key].maxItems # Absent
                 /\ Len(value.val) > properties[key].maxItems.val

\* every argument has the type its property declares
WellTyped(args, properties) ==
    \A i \in 1..Len(args.val) :
        args.val[i][1] \in DOMAIN properties =>
            validateParameterType(args.val[i][2], properties[args.val[i][1]].type)

\* C16: for a call of a registered function with the required arguments
\* present and every argument of its declared type, the result is a
\* VALIDATION_ERROR exactly when an argument exceeds its declared maximum,
\* maxLength or maxItems; a value equal to the bound passes.
C16_UpperBounds ==
    [][(/\ CallStep
        /\ ex'.name \in DOMAIN functions
        /\ IsArgs(ex'.args)
        /\ Truthy(functions[ex'.name].schema.val.parameters)
        /\ Truthy(functions[ex'.name].schema.val.parameters.val.properties)
        /\ MissingKeys(ex'.args, functions[ex'.name].schema) = {}
        /\ WellTyped(ex'.args,
                     functions[ex'.name].schema.val.parameters.val.properties.val))
       => (ex'.result.error.type = "VALIDATION_ERROR"
           <=> Exceeds(ex'.args,
                       functions[ex'.name].schema.val.parameters.val.properties.val))]_vars

C16_Witness ==
    /\ ex.pc = "returned"
    /\ ex.name = "searchDatabase"
    /\ ex.args = Args(<<Query("abc"), <<"limit", Number(10)>>>>)
    /\ ex.result.success
    /\ Logged(ex, "validateArguments")

\* a step that calls registerFunction
RegisterStep == reg' # reg /\ reg'.op = "registerFunction"

\* the schema or handler of a registration is one that register must refuse;
\* a field is declared when it holds a value other than null, '', 0 or false
Refused(r) ==
    \/ r.schema.val.name = Absent
    \/ r.schema.val.description = Absent
    \/ /\ Truthy(r.schema.val.parameters)
       /\ LET p == r.schema.val.parameters.val
          IN \/ Truthy(p.ptype) /\ p.ptype # Str("object")
             \/ Truthy(p.properties) /\ p.properties.type # "object"
             \/ Truthy(p.required) /\ p.required.type # "array"
    \/ r.handler.type # "function"

C18_SchemaNameIsKey ==
    /\ \A k \in DOMAIN functions : functions[k].schema.val.name = Str(k)
    /\ getFunctionSchemas(functions) = DOMAIN functions

-----------------------------------------------------------------------------
(* Properties of the function-call sub-protocol *)

\* the last two entries of h are the assistant's function call and a function
\* message of that function's name
EndsWithFunctionMessage(h, functionCall) ==
    /\ Len(h) >= 2
    /\ h[Len(h) - 1].role = "assistant"
    /\ h[Len(h) - 1].function_call = functionCall
    /\ h[Len(h)].role = "function"
    /\ h[Len(h)].name = functionCall.name

\* invocation t receives a completion that asks for a function call
FunctionCallStep(t) ==
    /\ tasks[t].pc = "awaitCompletion"
    /\ tasks'[t].rounds = tasks[t].rounds + 1

\* C19: when the arguments of a requested function call do not parse, the
\* invocation does not end and the registry is not invoked: a function message
\* reporting the parse failure follows the assistant's function-call message
\* and one more completion is requested.
C19_ParseFailureRecovered ==
    [][\A t \in 1..MaxEvents :
        (FunctionCallStep(t) /\ JSONParseThrows(tasks'[t].functionCall.arguments))
        => /\ tasks'[t].pc = "awaitCompletion"
           /\ tasks'[t].sent = tasks[t].sent + 1
           /\ EndsWithFunctionMessage(messageHistory', tasks'[t].functionCall)
           /\ StartsWith(messageHistory'[Len(messageHistory')].content,
                         "Failed to parse function arguments")]_vars

\* invocation t receives the result of the function it executed
FunctionResultStep(t) ==
    /\ tasks[t].pc = "awaitFunction"
    /\ tasks'[t].pc # "awaitFunction"

\* C20: when the execution of a requested function ends in a failed result,
\* the invocation does not end: a function message of the function's name
\* with the error's message and type is appended and one more completion is
\* requested over the extended transcript.
C20_ExecutionFailureRecovered ==
    [][\A t \in 1..MaxEvents :
        (FunctionResultStep(t) /\ ~tasks'[t].executed.success)
        => /\ tasks'[t].pc = "awaitCompletion"
           /\ tasks'[t].sent = tasks[t].sent + 1
           /\ tasks'[t].request = getFormattedHistory(messageHistory')
           /\ messageHistory'[Len(messageHistory')].role = "function"
           /\ messageHistory'[Len(messageHistory')].name = tasks[t].functionCall.name
           /\ messageHistory'[Len(messageHistory')].content =
                "Error executing " \o tasks[t].functionCall.name \o ": "
                \o tasks'[t].executed.error.message
                \o " (Type: " \o tasks'[t].executed.error.type \o ")"]_vars

-----------------------------------------------------------------------------
(* Properties of the failure paths of a turn *)

LastEntry(h) == h[Len(h)]

\* the catch block of handleFunctionCall is entered in invocation t
FaultStep(t) == tasks'[t].faults = tasks[t].faults + 1

\* the step appends the function message that reports the fault
FaultRecorded(t) ==
    /\ Len(messageHistory') >= 1
    /\ LastEntry(messageHistory').id = clock'
    /\ LastEntry(messageHistory').role = "function"
    /\ LastEntry(messageHistory').name = tasks'[t].functionCall.name
    /\ LastEntry(messageHistory').content =
         "Function execution failed: " \o tasks'[t].firstError

\* the completion awaited by invocation t fails: the client throws, or the
\* response cannot be processed
CompletionFails(t) ==
    /\ tasks[t].pc = "awaitCompletion"
    /\ Len(tasks'[t].trace) = Len(tasks[t].trace) + 1
    /\ LET o == tasks'[t].trace[Len(tasks'[t].trace)]
       IN o.kind = "error" \/ (o.function_call = Absent /\ o.content = Null)

IsFunctionExecutionError(task) ==
    /\ task.pc = "returned"
    /\ ~task.result.success
    /\ task.result.error = "FUNCTION_EXECUTION_ERROR"
    /\ task.result.message =
         "I encountered an error while executing the function: " \o task.firstError

\* C21: when an error reaches the catch block of handleFunctionCall, a
\* function message reporting it is appended and the final response is asked
\* for once more, one time: either the request is issued, or the client
\* refuses it and the FUNCTION_EXECUTION_ERROR envelope is returned at once;
\* when the request issued fails, that envelope is returned without another
\* request; an invocation that has returned requests nothing more.
C21_FaultRetriedOnce ==
    [][\A t \in 1..MaxEvents :
        /\ FaultStep(t) =>
             /\ tasks[t].kind # "generateResponse" => FaultRecorded(t)
             /\ \/ /\ tasks'[t].pc = "awaitCompletion"
                   /\ tasks'[t].stage = "retry"
                   /\ tasks'[t].sent = tasks[t].sent + 1
                \/ /\ IsFunctionExecutionError(tasks'[t])
                   /\ tasks'[t].sent = tasks[t].sent
        /\ (CompletionFails(t) /\ tasks[t].stage = "retry") =>
             /\ IsFunctionExecutionError(tasks'[t])
             /\ tasks'[t].sent = tasks[t].sent
             /\ tasks'[t].faults = tasks[t].faults
        /\ tasks[t].pc = "returned" =>
             /\ tasks'[t].pc = "returned"
             /\ tasks'[t].sent = tasks[t].sent]_vars

C21_Witness ==
    \E t \in 1..MaxEvents :
        /\ IsFunctionExecutionError(tasks[t])
        /\ tasks[t].faults = 1
        /\ tasks[t].stage = "retry"
        /\ tasks[t].sent = 3
        /\ tasks[t].trace[3].kind = "error"

\* a failure envelope's text is in the transcript as an assistant message
RecordedAsAssistant(h, envelope) ==
    \E i \in 1..Len(h) : h[i].role = "assistant" /\ h[i].content = envelope.message

CompletionFailed(task) ==
    /\ task.pc = "returned"
    /\ ~task.result.success
    /\ \/ Len(task.trace) >= 1 /\ task.trace[Len(task.trace)].kind = "error"
       \/ task.firstError =
            "Failed to get final response after function execution: "
            \o MessagesError(<<[role |-> "assistant", content |-> ""]>>)

\* the endpoint answered every request of the turn with a text
EndpointWorked(task) ==
    \A i \in 1..Len(task.trace) : task.trace[i] = TextResponse(FinalText)

\* C23: after a turn that failed because one of its completions failed, the
\* first one or the one that follows a function result, a later processMessage
\* on the same conversation, with no clearHistory or startConversation in
\* between and an endpoint that works, returns success.
C23_LaterTurnSucceeds ==
    \A t, u \in 1..MaxEvents :
        (/\ CompletionFailed(tasks[t])
         /\ t \in tasks[u].after
         /\ tasks[u].pc = "returned"
         /\ EndpointWorked(tasks[u]))
        => tasks[u].result.success

-----------------------------------------------------------------------------
(* Properties of the function-call loop *)

\* the completion awaited by invocation t arrives and is a plain text
TextArrives(t) ==
    /\ tasks[t].pc = "awaitCompletion"
    /\ Len(tasks'[t].trace) = Len(tasks[t].trace) + 1
    /\ LET o == tasks'[t].trace[Len(tasks'[t].trace)]
       IN o.kind = "response" /\ o.function_call = Absent /\ o.content.type = "string"

\* C24: the first completion of an invocation that carries a text and no
\* function call ends it: processMessage returns {success: true} with that
\* text, and requests no completion in that step or later.
C24_TextEndsLoop ==
    [][\A t \in 1..MaxEvents :
        /\ TextArrives(t) =>
             /\ tasks'[t].pc = "returned"
             /\ tasks'[t].result =
                  Envelope(TRUE, tasks'[t].trace[Len(tasks'[t].trace)].content.val, "")
             /\ tasks'[t].sent = tasks[t].sent
        /\ tasks[t].pc = "returned" =>
             /\ tasks'[t].pc = "returned"
             /\ tasks'[t].result = tasks[t].result
             /\ tasks'[t].sent = tasks[t].sent
             /\ tasks'[t].trace = tasks[t].trace]_vars

C24_Witness ==
    \E t \in 1..MaxEvents :
        /\ tasks[t].pc = "returned"
        /\ tasks[t].result = Envelope(TRUE, FinalText, "")
        /\ tasks[t].rounds = 1
        /\ tasks[t].sent = 2
        /\ tasks[t].trace[2] = TextResponse(FinalText)

\* C25: nothing caps the rounds of a turn: whenever a completion asks for a
\* function call, whatever the number of calls the turn has already made, the
\* round is performed in full: the assistant's function-call message is
\* appended and the function executed, then its result message is appended
\* and a new completion is requested.
C25_NoRoundCap ==
    [][\A t \in 1..MaxEvents :
        /\ (FunctionCallStep(t) /\ ~JSONParseThrows(tasks'[t].functionCall.arguments))
           => /\ tasks'[t].pc = "awaitFunction"
              /\ LastEntry(messageHistory').role = "assistant"
              /\ LastEntry(messageHistory').function_call = tasks'[t].functionCall
        /\ FunctionResultStep(t)
           => /\ tasks'[t].pc = "awaitCompletion"
              /\ tasks'[t].sent = tasks[t].sent + 1
              /\ tasks'[t].rounds = tasks[t].rounds
              /\ LastEntry(messageHistory').role = "function"]_vars

\* C26: processMessage does not wait for the invocations in flight: while one
\* awaits its completion another can start, and its user message goes into
\* the transcript between the first one's user message and reply.
C26_NotSerialized ==
    \A t \in 2..MaxEvents :
        (/\ tasks[t - 1].pc = "awaitCompletion"
         /\ tasks[t].pc = "idle"
         /\ EventsUsed < MaxEvents)
        => ENABLED processMessage(t, TurnInput, [kind |-> "processMessage",
                                                 includeHistory |-> TRUE,
                                                 maxTokens |-> 0,
                                                 context |-> ""])

\* two turns interleaved: user, user, assistant, assistant
C26_Witness ==
    /\ Len(messageHistory) = 5
    /\ \A t \in 1..2 : tasks[t].pc = "returned" /\ tasks[t].result.success
    /\ messageHistory[2].role = "user"
    /\ messageHistory[3].role = "user"
    /\ messageHistory[4].role = "assistant"
    /\ messageHistory[5].role = "assistant"

-----------------------------------------------------------------------------
(* Properties of the transcript's mutations *)

\* h2 is h with entries appended at its end, allocated after c, and, when
\* that fills it, its oldest entries after the first evicted; with
\* nonSystemOnly, the evicted entries are not system messages
AppendEvict(h, h2, c, nonSystemOnly) ==
    LET n == Cardinality({i \in 1..Len(h2) : h2[i].id <= c})
    IN /\ \A i \in 1..Len(h2) : (i <= n) <=> (h2[i].id <= c)
       /\ n <= Len(h)
       /\ IF n = Len(h) THEN SubSeq(h2, 1, n) = h
          ELSE /\ n >= 1
               /\ Len(h2) = maxHistoryLength
               /\ h2[1] = h[1]
               /\ SubSeq(h2, 2, n) = SubSeq(h, Len(h) - n + 2, Len(h))
               /\ nonSystemOnly =>
                    \A i \in 2..(Len(h) - n + 1) : h[i].role # "system"

\* a step of startConversation or clearHistory
ConversationReset ==
    \/ systemMessage'.id = clock' /\ messageHistory' = <<systemMessage'>>
    \/ /\ clock' = clock
       /\ LET i == FindIndex(messageHistory, "system", 1)
          IN messageHistory' = IF i > 0 THEN <<messageHistory[i]>> ELSE <<>>

\* updateSystemMessage rewrote the content of the first system entry
SystemRewritten ==
    LET i == FindIndex(messageHistory, "system", 1)
    IN /\ i > 0
       /\ messageHistory' =
            [messageHistory EXCEPT ![i].content = systemMessage'.content]

\* generateResponse returned and put its snapshot back
Restored ==
    \E t \in 1..MaxEvents :
        /\ tasks[t].kind = "generateResponse"
        /\ Returns(t)
        /\ messageHistory' = tasks[t].originalHistory

\* C29: apart from startConversation and clearHistory, every operation leaves
\* the entries of the transcript as they are and in their order, and changes
\* the transcript only by appending at its end and by evicting its oldest
\* non-system entries.
C29_AppendOnly ==
    [][messageHistory' # messageHistory =>
        \/ ConversationReset
        \/ AppendEvict(messageHistory, messageHistory', clock, TRUE)]_vars

\* C29 amended: apart from startConversation, clearHistory and cleanup, which
\* empties the transcript, every operation changes the transcript only by
\* appending at its end and by evicting its oldest entries after the first,
\* but for updateSystemMessage, which rewrites the content of the first system
\* entry in place, and generateResponse, which on return puts back the entries
\* the transcript held when it was called.
C29_AppendEvictRewriteRestore ==
    [][messageHistory' # messageHistory =>
        \/ ConversationReset
        \/ cleaned' /\ messageHistory' = <<>>
        \/ AppendEvict(messageHistory, messageHistory', clock, FALSE)
        \/ SystemRewritten
        \/ Restored]_vars

\* a full transcript whose oldest entries were evicted and whose system entry
\* was rewritten
C29_Witness ==
    /\ Len(messageHistory) = maxHistoryLength
    /\ messageHistory[1].role = "system"
    /\ messageHistory[1].id = 1
    /\ messageHistory[1].content = "Be brief."
    /\ messageHistory[2].id > 3

\* C30: every entry of the transcript has a role of the closed set and a
\* timestamp the ChatManager assigned when it appended the entry (the system
\* entry of startConversation has none), whatever metadata addToHistory was
\* called with.
C30_EntriesWellFormed ==
    \A i \in 1..Len(messageHistory) :
        /\ messageHistory[i].role \in validRoles
        /\ messageHistory[i].timestamp \in {0, messageHistory[i].id}
        /\ messageHistory[i].timestamp = 0 => messageHistory[i].role = "system"

-----------------------------------------------------------------------------
(* Properties of sanitizeResult *)

\* v holds a function reference or a promise
RECURSIVE HoldsLiveHandle(_)
HoldsLiveHandle(v) ==
    IF v = Absent THEN FALSE
    ELSE IF v.type \in {"function", "promise"} THEN TRUE
    ELSE IF v.type = "object" THEN \E i \in 1..Len(v.val) : HoldsLiveHandle(v.val[i][2])
    ELSE IF v.type = "array" THEN \E i \in 1..Len(v.val) : HoldsLiveHandle(v.val[i])
    ELSE FALSE

\* C27: a result returned by executeFunctionSafely with sanitizeResults on
\* holds no function reference and no promise, whatever the handler returned.
C27_NoLiveHandle ==
    (/\ ex.pc = "returned"
     /\ ex.api = "executeFunctionSafely"
     /\ \E i \in 1..Len(ex.steps) : ex.steps[i] = "sanitizeResult"
     /\ ex.result.success)
    => ~HoldsLiveHandle(ex.result.result)

RECURSIVE HoldsFunction(_)
HoldsFunction(v) ==
    IF v = Absent THEN FALSE
    ELSE IF v.type = "function" THEN TRUE
    ELSE IF v.type = "object" THEN \E i \in 1..Len(v.val) : HoldsFunction(v.val[i][2])
    ELSE IF v.type = "array" THEN \E i \in 1..Len(v.val) : HoldsFunction(v.val[i])
    ELSE FALSE

-----------------------------------------------------------------------------
(* Properties of trimToTokenLimit *)

IsSuffix(kept, list) ==
    /\ Len(kept) <= Len(list)
    /\ kept = SubSeq(list, Len(list) - Len(kept) + 1, Len(list))

\* result is the first system message of messages, when there is one, and
\* then the longest suffix of the other messages that fits maxTokens with it
SystemThenLongestSuffix(messages, maxTokens, result) ==
    LET i == FindIndex(messages, "system", 1)
        others == getHistory(messages, FALSE)
        kept == IF i > 0 THEN Tail(result) ELSE result
        system == IF i > 0 THEN <<messages[i]>> ELSE <<>>
    IN /\ i > 0 => (Len(result) > 0 /\ result[1] = messages[i])
       /\ IsSuffix(kept, others)
       /\ Len(kept) > 0 => estimateTokenCount(system \o kept) <= maxTokens
       /\ Len(kept) < Len(others) =>
            estimateTokenCount(system) + estimateTokenCount(
                SubSeq(others, Len(others) - Len(kept), Len(others))) > maxTokens

\* C31 as stated: the result is the system message and the longest suffix
\* that fits, and its estimate never exceeds the budget.
C31_WithinBudget ==
    view.op = "trimToTokenLimit" =>
        /\ SystemThenLongestSuffix(view.messages, view.maxTokens, view.result)
        /\ estimateTokenCount(view.result) <= view.maxTokens

\* C31 amended: the result is the first system message, when there is one,
\* followed by the longest suffix of the other messages, in their order,
\* whose estimate with the system message's is at most the budget; the
\* result's estimate exceeds the budget only when the system message's own
\* estimate does, and the result is then the system message alone.
C31_WithinBudgetOrSystemAlone ==
    view.op = "trimToTokenLimit" =>
        /\ SystemThenLongestSuffix(view.messages, view.maxTokens, view.result)
        /\ \/ estimateTokenCount(view.result) <= view.maxTokens
           \/ /\ Len(view.result) = 1
              /\ view.result[1].role = "system"

\* a list of three with the system message in the middle, of which the
\* system message and the last message are kept
C31_Witness ==
    /\ view.op = "trimToTokenLimit"
    /\ Len(view.messages) = 3
    /\ view.messages[2].role = "system"
    /\ view.messages[1].role # "system"
    /\ view.result = <<view.messages[2], view.messages[3]>>

-----------------------------------------------------------------------------
(* Properties of generateResponse *)

\* invocation t is all that has happened to the ChatManager
OnlyEvent(t) ==
    /\ opsLeft = MaxOps
    /\ \A u \in 1..MaxEvents : u # t => tasks[u].pc = "idle"

\* C32: when generateResponse has returned and nothing overlapped it, the
\* transcript is the one it was called on, whether it returns success or a
\* failure envelope: no message of its turn is kept.
C32_GenerateResponseRestores ==
    \A t \in 1..MaxEvents :
        (/\ tasks[t].kind = "generateResponse"
         /\ tasks[t].pc = "returned"
         /\ OnlyEvent(t))
        => messageHistory = <<systemMessage>>

\* a generateResponse that went through a function call has returned
C32_Witness ==
    \E t \in 1..MaxEvents :
        /\ tasks[t].kind = "generateResponse"
        /\ tasks[t].pc = "returned"
        /\ OnlyEvent(t)
        /\ tasks[t].rounds = 1
        /\ tasks[t].executed.success
        /\ messageHistory = <<systemMessage>>

-----------------------------------------------------------------------------
(* Properties of the requests *)

HasUserMessage(messages, content) ==
    \E i \in 1..Len(messages) :
        messages[i].role = "user" /\ messages[i].content = content

\* C35: a request an invocation has sent to the completion client holds the
\* user message of its turn, whatever includeHistory and maxTokens are.
C35_RequestHoldsUserMessage ==
    \A t \in 1..MaxEvents :
        (tasks[t].pc = "awaitCompletion" /\ tasks[t].kind = "processMessage")
        => HasUserMessage(tasks[t].request, Trim(tasks[t].input.val))

\* C37: the user message of a processMessage that has returned success stays
\* in the transcript while no clearHistory, startConversation or cleanup has
\* run and the transcript is too short for trimming; a generateResponse that
\* overlaps it does not take the message away.
C37_AppendedSurvives ==
    \A t \in 1..MaxEvents :
        (/\ tasks[t].kind = "processMessage"
         /\ tasks[t].pc = "returned"
         /\ tasks[t].result.success
         /\ opsLeft = MaxOps)
        => HasUserMessage(messageHistory, Trim(tasks[t].input.val))

-----------------------------------------------------------------------------
(* Properties of the function entries of the transcript *)

\* C33: every function entry of the transcript comes after an assistant
\* entry that carries a function call of the same name, also after trimming
\* and after the error paths of a function call.
C33_FunctionAfterItsCall ==
    \A i \in 1..Len(messageHistory) :
        messageHistory[i].role = "function"
        => \E j \in 1..(i - 1) :
              /\ messageHistory[j].role = "assistant"
              /\ messageHistory[j].function_call # Absent
              /\ messageHistory[j].function_call.name = messageHistory[i].name

\* C34: once the turns have returned, the transcript holds one function
\* entry for each function call that was handled, whatever came of it.
C34_OneFunctionEntryPerCall ==
    (\A t \in 1..MaxEvents : tasks[t].pc \in {"idle", "returned"})
    => CountOf(messageHistory, "function") = RoundsUpTo(MaxEvents)

\* a step that appends to the transcript, with or without eviction
AppendStep ==
    /\ clock' = clock + 1
    /\ ~ConversationReset
    /\ Len(messageHistory') > 0
    /\ LastEntry(messageHistory').id = clock'
    /\ AppendEvict(messageHistory, messageHistory', clock, FALSE)

\* C38: once getConversationStats reports a start time, appending to the
\* transcript does not change it, with or without trimming.
C38_StartStable ==
    [][(AppendStep /\ getConversationStats(messageHistory).conversationStarted # 0)
       => getConversationStats(messageHistory').conversationStarted
          = getConversationStats(messageHistory).conversationStarted]_vars

-----------------------------------------------------------------------------
(* Properties of the timeout timer *)

\* C36: when executeFunction has returned after a handler that returned,
\* threw or rejected before the timeout, the timer it armed is not pending
\* any more.
C36_TimerCleared ==
    (/\ ex.pc \in {"returned", "threw"}
     /\ \E i \in 1..Len(ex.steps) : ex.steps[i] = "setTimeout"
     /\ ex.handler = "settled"
     /\ ex.now < timeoutMs)
    => ex.timer # "armed"

-----------------------------------------------------------------------------
(* Properties of the client's configuration *)

InRange(model, temperature, maxTokens) ==
    /\ TypeOf(model) = "string" /\ Trim(model.val) # ""
    /\ TypeOf(temperature) = "number" /\ temperature # NaN
    /\ temperature.val >= 0 /\ temperature.val <= 20
    /\ TypeOf(maxTokens) = "number" /\ maxTokens # NaN
    /\ maxTokens.val >= 1 /\ maxTokens.val <= 4096

\* C39: the stored configuration has a non-empty model, a temperature in
\* [0, 2] and max tokens in [1, 4096]; a call of initialize or updateConfig
\* that throws leaves it as it was, and every request carries such values.
C39_ConfigInRange ==
    /\ InRange(oc.config.model, oc.config.temperature, oc.config.maxTokens)
    /\ oc.request # Absent
       => InRange(oc.request.model, oc.request.temperature, oc.request.max_tokens)

-----------------------------------------------------------------------------
(* Properties of the shutdown *)

\* C40: whatever exit triggers arrive and in whatever order, the
\* conversation is saved at most once and ChatManager.cleanup runs at most
\* once, and the save has read the transcript before cleanup emptied it.
C40_ShutdownOnce ==
    /\ cli.saves <= 1
    /\ cli.cleanups <= 1
    /\ cli.saves = 1 => (cli.savedAfter = 0 /\ Len(cli.saved) > 0)

\* three triggers, one of them the close event of cleanupResources, after
\* which the conversation is saved and cleaned up once
C40_Witness ==
    /\ Len(cli.exits) = 3
    /\ \A i \in 1..3 : cli.exits[i].pc = "done"
    /\ cli.exits[3].trigger = "readline close"
    /\ cli.rl = "none"
    /\ cli.saves = 1
    /\ cli.cleanups = 1
    /\ Len(cli.saved) = 2
    /\ messageHistory = <<>>

====
